---- MODULE Spec2Model ----
(***************************************************************************)
(* Model of the provider-abstraction layer of ai-video-gen                 *)
(* (services/geminiService.ts): the response extractor safeJSONParse, the  *)
(* error classifier isAuthError and the four engine calls on the primary   *)
(* provider (analyzeStory, polishStory, generateAssetImage,                *)
(* generateVeoVideo) with their retry-once wrapper.                        *)
(*                                                                         *)
(* Texts are TLA+ strings; positions handed to the JavaScript string       *)
(* methods are 0-based, as in the source.                                  *)
(***************************************************************************)
EXTENDS Integers, Sequences, FiniteSets, TLC

VARIABLES
    raw,        \* safeJSONParse: the text handed to the extractor
    input,      \* how raw was assembled (document, prose, fence, commas)
    extracted,  \* safeJSONParse: its outcome, or NotRun
    console,    \* safeJSONParse: the arguments of its console.error call
    err,        \* isAuthError: the error handed to the classifier
    authClass,  \* isAuthError: its verdict "auth" or "other", or "notrun"
    call,       \* the engine call in flight: arguments, position, log, outcome
    envKey,     \* process.env.API_KEY holds a key
    aistudio,   \* window.aistudio is present
    app         \* the App component: its state, the project list, calls in flight

vars == <<raw, input, extracted, console, err, authClass, call, envKey, aistudio, app>>

(***************************************************************************)
(* JavaScript string primitives.  A value that is used more than once is   *)
(* handed on as a parameter of a helper operator.                          *)
(***************************************************************************)

\* s.charAt(i), 0-based; "" when i is out of range
charAt(s, i) == IF i >= 0 /\ i < Len(s) THEN SubSeq(s, i + 1, i + 1) ELSE ""

\* x clamped to 0..n
clamp(x, n) == IF x < 0 THEN 0 ELSE IF x > n THEN n ELSE x

slice(s, lo, hi) == IF lo <= hi THEN SubSeq(s, lo + 1, hi) ELSE SubSeq(s, hi + 1, lo)

\* s.substring(a, b), 0-based, b exclusive; both ends are clamped to 0..Len(s)
substring(s, a, b) == slice(s, clamp(a, Len(s)), clamp(b, Len(s)))

\* s.startsWith(n, i)
startsWithAt(s, n, i) == i + Len(n) <= Len(s) /\ SubSeq(s, i + 1, i + Len(n)) = n

\* the least / greatest member of a set of positions, or -1 for the empty set
leastOf(S)    == IF S = {} THEN -1 ELSE CHOOSE i \in S : \A j \in S : i <= j
greatestOf(S) == IF S = {} THEN -1 ELSE CHOOSE i \in S : \A j \in S : i >= j

\* s.indexOf(n, from): the first position >= from where n occurs, or -1
indexOfFrom(s, n, from) == leastOf({i \in from..(Len(s) - Len(n)) : startsWithAt(s, n, i)})

indexOf(s, n) == indexOfFrom(s, n, 0)

\* s.lastIndexOf(n)
lastIndexOf(s, n) == greatestOf({i \in 0..(Len(s) - Len(n)) : startsWithAt(s, n, i)})

includes(s, n) == indexOf(s, n) # -1

\* the characters String.prototype.trim and the regular expression class \s
\* remove, restricted to the ones the model's texts use
WhiteSpace == {" ", "\t", "\n", "\r"}

RECURSIVE skipSpace(_, _)
\* the first position >= i of s that holds no white space (Len(s) if none)
skipSpace(s, i) ==
    IF i < Len(s) /\ charAt(s, i) \in WhiteSpace THEN skipSpace(s, i + 1) ELSE i

RECURSIVE skipSpaceBack(_, _, _)
\* the least position p in lo..i such that s[p..i) is all white space
skipSpaceBack(s, i, lo) ==
    IF i > lo /\ charAt(s, i - 1) \in WhiteSpace THEN skipSpaceBack(s, i - 1, lo) ELSE i

trimFrom(s, a) == SubSeq(s, a + 1, skipSpaceBack(s, Len(s), a))

\* s.trim()
trim(s) == trimFrom(s, skipSpace(s, 0))

UpperCase == "ABCDEFGHIJKLMNOPQRSTUVWXYZ"
LowerCase == "abcdefghijklmnopqrstuvwxyz"

\* one character, lower-cased
lowerChar(c) ==
    IF \E i \in 0..25 : charAt(UpperCase, i) = c
    THEN charAt(LowerCase, CHOOSE i \in 0..25 : charAt(UpperCase, i) = c)
    ELSE c

RECURSIVE toLowerCase(_)
\* s.toLowerCase(), by halves
toLowerCase(s) ==
    IF Len(s) <= 1 THEN lowerChar(s)
    ELSE toLowerCase(SubSeq(s, 1, Len(s) \div 2))
            \o toLowerCase(SubSeq(s, Len(s) \div 2 + 1, Len(s)))

(***************************************************************************)
(* JavaScript values.  Every value is a tagged record, so that values of   *)
(* different kinds can be compared:                                        *)
(*   [t |-> "undefined"], [t |-> "str", v |-> s], [t |-> "num", v |-> n],  *)
(*   [t |-> "lit", v |-> "true" | "false" | "null"],                       *)
(*   [t |-> "arr", v |-> <<values>>],                                      *)
(*   [t |-> "obj", v |-> [key |-> value]],                                 *)
(*   [t |-> "Error", message |-> s, status |-> value, code |-> value]      *)
(* A number is written as its decimal lexeme: Num("404") is the number 404.*)
(***************************************************************************)
Undefined == [t |-> "undefined"]
Str(s)    == [t |-> "str", v |-> s]
Num(n)    == [t |-> "num", v |-> n]
Lit(w)    == [t |-> "lit", v |-> w]
Arr(q)    == [t |-> "arr", v |-> q]
Obj(f)    == [t |-> "obj", v |-> f]

\* new Error(message): an Error with no status and no code field
Error(message) ==
    [t |-> "Error", message |-> message, status |-> Undefined, code |-> Undefined]

\* the outcome of running a function: a returned value or a thrown one
Return(v) == [kind |-> "return", v |-> v]
Throw(e)  == [kind |-> "throw", v |-> e]

\* a === b
strictEquals(a, b) == a.t = b.t /\ (a.t = "undefined" \/ a.v = b.v)

(***************************************************************************)
(* isAuthError                                                             *)
(***************************************************************************)
\* Error.prototype.toString()
errorToString(e) == IF e.message = "" THEN "Error" ELSE "Error: " \o e.message

authMessage(e, msg) ==
    \/ includes(msg, "requested entity was not found")
    \/ includes(msg, "404")
    \/ strictEquals(e.status, Str("NOT_FOUND"))
    \/ strictEquals(e.code, Num("404"))

\* isAuthError without the toLowerCase() of line 7
isAuthErrorCaseSensitive(e) ==
    authMessage(e, IF e.message # "" THEN e.message ELSE errorToString(e))

isAuthError(e) ==
    authMessage(e, toLowerCase(IF e.message # "" THEN e.message ELSE errorToString(e)))

(***************************************************************************)
(* JSON.parse (ECMA-404).  Positions inside the parser are 0-based.  A     *)
(* parse step yields [ok, val, pos]: pos is the position after the value.  *)
(* A number's value is its lexeme and a \uXXXX escape is kept as written:  *)
(* the texts of the model write every number and character one way only.   *)
(***************************************************************************)
Digits == {"0", "1", "2", "3", "4", "5", "6", "7", "8", "9"}
HexDigits == Digits \cup {"a", "b", "c", "d", "e", "f", "A", "B", "C", "D", "E", "F"}
JsonSpace == {" ", "\t", "\n", "\r"}

NoParse == [ok |-> FALSE, val |-> Undefined, pos |-> -1]
Parsed(v, p) == [ok |-> TRUE, val |-> v, pos |-> p]

RECURSIVE skipJsonSpace(_, _)
skipJsonSpace(s, i) ==
    IF i < Len(s) /\ charAt(s, i) \in JsonSpace THEN skipJsonSpace(s, i + 1) ELSE i

RECURSIVE skipDigits(_, _)
skipDigits(s, i) ==
    IF i < Len(s) /\ charAt(s, i) \in Digits THEN skipDigits(s, i + 1) ELSE i

\* number = [-] int [frac] [exp]; the number starts at i
numberEnd(s, i, e) == Parsed(Num(SubSeq(s, i + 1, e)), e)

\* e0 is past the exponent's sign, e past its digits
numberExpDigits(s, i, e0, e) == IF e = e0 THEN NoParse ELSE numberEnd(s, i, e)

\* c is past the integer part and the fraction
numberExp(s, i, c) ==
    IF charAt(s, c) \in {"e", "E"}
    THEN IF charAt(s, c + 1) \in {"+", "-"}
         THEN numberExpDigits(s, i, c + 2, skipDigits(s, c + 2))
         ELSE numberExpDigits(s, i, c + 1, skipDigits(s, c + 1))
    ELSE numberEnd(s, i, c)

\* b is at the "." of the fraction, c past its digits
numberFracDigits(s, i, b, c) == IF c = b + 1 THEN NoParse ELSE numberExp(s, i, c)

\* a is past the sign, b past the integer part
numberFrac(s, i, a, b) ==
    IF b = a THEN NoParse
    ELSE IF charAt(s, b) = "." THEN numberFracDigits(s, i, b, skipDigits(s, b + 1))
    ELSE numberExp(s, i, b)

numberInt(s, i, a) ==
    IF charAt(s, a) = "0" THEN numberFrac(s, i, a, a + 1)
    ELSE numberFrac(s, i, a, skipDigits(s, a))

parseNumber(s, i) == numberInt(s, i, IF charAt(s, i) = "-" THEN i + 1 ELSE i)

\* the character an escape \c stands for ("" when \c is no escape)
unescape(c) ==
    CASE c = "\""  -> "\""
      [] c = "\\"  -> "\\"
      [] c = "/"   -> "/"
      [] c = "n"   -> "\n"
      [] c = "t"   -> "\t"
      [] c = "r"   -> "\r"
      [] c = "f"   -> "\f"
      [] c = "b"   -> "\\b"
      [] OTHER     -> ""

RECURSIVE scanString(_, _, _)

\* n is the first quote or backslash at or after i (-1 if none): the
\* characters before it are taken at once
scanStop(s, i, acc, n) ==
    IF n = -1 THEN NoParse
    ELSE IF \E j \in i..(n - 1) : charAt(s, j) \in {"\n", "\t", "\r", "\f"} THEN NoParse
    ELSE IF charAt(s, n) = "\"" THEN Parsed(Str(acc \o SubSeq(s, i + 1, n)), n + 1)
    ELSE IF charAt(s, n + 1) = "u"
         THEN IF n + 6 <= Len(s) /\ \A k \in 2..5 : charAt(s, n + k) \in HexDigits
              THEN scanString(s, n + 6, acc \o SubSeq(s, i + 1, n + 6))
              ELSE NoParse
    ELSE IF unescape(charAt(s, n + 1)) = "" THEN NoParse
    ELSE scanString(s, n + 2, acc \o SubSeq(s, i + 1, n) \o unescape(charAt(s, n + 1)))

\* i is past the opening quote or past an escape; acc is the string read so far
scanString(s, i, acc) ==
    scanStop(s, i, acc, leastOf({j \in i..(Len(s) - 1) : charAt(s, j) \in {"\"", "\\"}}))

RECURSIVE parseValue(_, _)
RECURSIVE parseElements(_, _, _)
RECURSIVE parseMembers(_, _, _)

\* an element has been read up to j, white space skipped
elementSeparator(s, acc, j) ==
    IF charAt(s, j) = "," THEN parseElements(s, skipJsonSpace(s, j + 1), acc)
    ELSE IF charAt(s, j) = "]" THEN Parsed(Arr(acc), j + 1)
    ELSE NoParse

elementValue(s, acc, v) ==
    IF ~v.ok THEN NoParse
    ELSE elementSeparator(s, Append(acc, v.val), skipJsonSpace(s, v.pos))

\* i holds the first character of an element; acc holds the elements read
parseElements(s, i, acc) == elementValue(s, acc, parseValue(s, i))

\* a member has been read up to j, white space skipped
memberSeparator(s, acc, j) ==
    IF charAt(s, j) = "," THEN parseMembers(s, skipJsonSpace(s, j + 1), acc)
    ELSE IF charAt(s, j) = "}" THEN Parsed(Obj(acc), j + 1)
    ELSE NoParse

\* a repeated key keeps its last value
memberValue(s, acc, key, v) ==
    IF ~v.ok THEN NoParse
    ELSE memberSeparator(s, (key :> v.val) @@ acc, skipJsonSpace(s, v.pos))

memberColon(s, acc, key, c) ==
    IF charAt(s, c) # ":" THEN NoParse
    ELSE memberValue(s, acc, key, parseValue(s, skipJsonSpace(s, c + 1)))

memberKey(s, acc, k) ==
    IF ~k.ok THEN NoParse ELSE memberColon(s, acc, k.val.v, skipJsonSpace(s, k.pos))

\* i holds the first character of a member; acc maps the keys read so far
parseMembers(s, i, acc) ==
    IF charAt(s, i) = "\"" THEN memberKey(s, acc, scanString(s, i + 1, "")) ELSE NoParse

\* j is past "{" and white space
objectBody(s, j) ==
    IF charAt(s, j) = "}" THEN Parsed(Obj(<<>>), j + 1) ELSE parseMembers(s, j, <<>>)

\* j is past "[" and white space
arrayBody(s, j) ==
    IF charAt(s, j) = "]" THEN Parsed(Arr(<<>>), j + 1) ELSE parseElements(s, j, <<>>)

\* i holds the first character of the value
parseValue(s, i) ==
    CASE charAt(s, i) = "{"  -> objectBody(s, skipJsonSpace(s, i + 1))
      [] charAt(s, i) = "["  -> arrayBody(s, skipJsonSpace(s, i + 1))
      [] charAt(s, i) = "\"" -> scanString(s, i + 1, "")
      [] charAt(s, i) = "-" \/ charAt(s, i) \in Digits -> parseNumber(s, i)
      [] startsWithAt(s, "true", i)  -> Parsed(Lit("true"), i + 4)
      [] startsWithAt(s, "false", i) -> Parsed(Lit("false"), i + 5)
      [] startsWithAt(s, "null", i)  -> Parsed(Lit("null"), i + 4)
      [] OTHER -> NoParse

parseEnd(s, v) ==
    IF v.ok /\ skipJsonSpace(s, v.pos) = Len(s)
    THEN Return(v.val)
    ELSE Throw(Error("Unexpected token in JSON"))

\* JSON.parse(s): the value, or the SyntaxError it throws
JSONparse(s) == parseEnd(s, parseValue(s, skipJsonSpace(s, 0)))

(***************************************************************************)
(* safeJSONParse                                                           *)
(***************************************************************************)
\* A TLA+ string cannot hold a backquote (U+0060): the model writes the
\* backquote as a tilde, a character no text of the model uses otherwise.
BackQuote == "~"
Fence == BackQuote \o BackQuote \o BackQuote

NoMatch == [found |-> FALSE, group1 |-> ""]

\* cleaned.match(/FENCE(?:json)?\s*([\s\S]*?)\s*FENCE/), FENCE being three
\* backquotes: [found, group1].  The match starts at the first fence; the
\* optional json tag and the first \s* are greedy, the group is lazy: it
\* ends at the white space that precedes the next fence.  There is no match
\* when no second fence follows.
matchClose(cleaned, q, close) ==
    IF close = -1 THEN NoMatch
    ELSE [found |-> TRUE, group1 |-> SubSeq(cleaned, q + 1, skipSpaceBack(cleaned, close, q))]

\* q is past the opening fence, its tag and the white space after it
matchGroup(cleaned, q) == matchClose(cleaned, q, indexOfFrom(cleaned, Fence, q))

\* p is the position of the first fence, or -1
matchOpen(cleaned, p) ==
    IF p = -1 THEN NoMatch
    ELSE IF startsWithAt(cleaned, "json", p + 3)
    THEN matchGroup(cleaned, skipSpace(cleaned, p + 7))
    ELSE matchGroup(cleaned, skipSpace(cleaned, p + 3))

markdownMatch(cleaned) == matchOpen(cleaned, indexOf(cleaned, Fence))

\* step 1 of safeJSONParse: the inside of the first fenced block, if any
unfence(cleaned, m) == IF m.found THEN trim(m.group1) ELSE cleaned

\* bounds without the test of line 62: cleaned.substring(start, end + 1) runs
\* whenever an opener was found
boundsAlwaysCut(cleaned, firstBrace, firstBracket, lastBrace, lastBracket) ==
    LET isObject == firstBrace # -1 /\ (firstBracket = -1 \/ firstBrace < firstBracket)
        start    == IF isObject THEN firstBrace
                    ELSE IF firstBracket # -1 THEN firstBracket ELSE -1
        end      == IF isObject THEN lastBrace
                    ELSE IF firstBracket # -1 THEN lastBracket ELSE -1
    IN  IF start # -1
        THEN substring(cleaned, start, end + 1)
        ELSE cleaned

\* step 2 of safeJSONParse: cut cleaned down to the outermost object or array
bounds(cleaned, firstBrace, firstBracket, lastBrace, lastBracket) ==
    LET isObject == firstBrace # -1 /\ (firstBracket = -1 \/ firstBrace < firstBracket)
        start    == IF isObject THEN firstBrace
                    ELSE IF firstBracket # -1 THEN firstBracket ELSE -1
        end      == IF isObject THEN lastBrace
                    ELSE IF firstBracket # -1 THEN lastBracket ELSE -1
    IN  IF start # -1 /\ end # -1 /\ end > start
        THEN SubSeq(cleaned, start + 1, end + 1)
        ELSE cleaned

\* jsonBounds with indexOf where lines 47-48 have lastIndexOf
jsonBoundsFirstCloser(cleaned) ==
    bounds(cleaned, indexOf(cleaned, "{"), indexOf(cleaned, "["),
           indexOf(cleaned, "}"), indexOf(cleaned, "]"))

jsonBounds(cleaned) ==
    bounds(cleaned, indexOf(cleaned, "{"), indexOf(cleaned, "["),
           lastIndexOf(cleaned, "}"), lastIndexOf(cleaned, "]"))

RECURSIVE replaceTrailingCommas(_, _, _)

\* c is the next comma that only white space separates from a closer (-1 if
\* none), j the position of that closer
dropComma(s, i, acc, c, j) ==
    IF c = -1 THEN acc \o SubSeq(s, i + 1, Len(s))
    ELSE replaceTrailingCommas(s, j + 1, acc \o SubSeq(s, i + 1, c) \o SubSeq(s, c + 2, j + 1))

nextComma(s, i, acc, c) == dropComma(s, i, acc, c, skipSpace(s, c + 1))

\* cleaned.replace(/,(\s*[}\]])/g, "$1"), scanning from position i: every
\* comma that only white space separates from a closer is dropped; the scan
\* goes on after that closer
replaceTrailingCommas(s, i, acc) ==
    nextComma(s, i, acc,
        leastOf({c \in i..(Len(s) - 1) :
                    charAt(s, c) = "," /\ charAt(s, skipSpace(s, c + 1)) \in {"}", "]"}}))

ParseFailure ==
    Error("Failed to parse model response as JSON. The response might be incomplete or malformed.")

\* the two parses of safeJSONParse: of cleaned, and of cleaned with its
\* trailing commas removed
parses(cleaned) ==
    [n \in 1..2 |-> JSONparse(IF n = 1 THEN cleaned ELSE replaceTrailingCommas(cleaned, 0, ""))]

\* the inner try block without its catch clause: the SyntaxError of the
\* second JSON.parse escapes
firstParsedRethrow(tries) ==
    IF tries[1].kind = "return" THEN tries[1] ELSE tries[2]

firstParsed(tries) ==
    IF tries[1].kind = "return" THEN tries[1]
    ELSE IF tries[2].kind = "return" THEN tries[2]
    ELSE Throw(ParseFailure)

extractFrom(trimmed) == firstParsed(parses(jsonBounds(unfence(trimmed, markdownMatch(trimmed)))))

safeJSONParse(text) == extractFrom(trim(text))

(***************************************************************************)
(* The texts the extractor is run on.  A document is written as the        *)
(* pieces between the places where JSON with trailing commas would hold a  *)
(* comma: every piece but the first starts with the closer of a non-empty  *)
(* object or array.                                                        *)
(***************************************************************************)
RECURSIVE join(_, _)
join(pieces, sep) ==
    IF Len(pieces) = 0 THEN ""
    ELSE IF Len(pieces) = 1 THEN pieces[1]
    ELSE pieces[1] \o sep \o join(Tail(pieces), sep)

\* a StoryPolishResponse
PolishDoc ==
    << "{\"critique\":\"slow start\",\"rewritten_story\":\"A fox met a crow.\",\"changes_made\":[\"cut\",\"named the fox\"",
       "]", "}" >>

\* a StoryAnalysis
AnalysisDoc ==
    << "{\"title\":\"Fox\",\"characters\":[{\"name\":\"Fox\",\"description\":\"red\"", "}",
       "],\"scenes\":[],\"props\":[],\"animals_plants\":[],\"others\":[],\"plot_points\":[{\"description\":\"d\",\"suggested_visual\":\"v\"",
       "}", "]", "}" >>

\* a StoryPolishResponse whose strings hold braces and brackets
BracesDoc ==
    << "{\"critique\":\"see {a} and [b]\",\"rewritten_story\":\"}{\",\"changes_made\":[\"]\"", "]", "}" >>

\* a StoryPolishResponse with a string that holds a comma before a closer
CommaDoc ==
    << "{\"critique\":\"a, }\",\"rewritten_story\":\"b\",\"changes_made\":[\"c\"", "]", "}" >>

\* a StoryPolishResponse with a string that holds a code fence
FenceDoc ==
    << "{\"critique\":\"use " \o Fence \o " here\",\"rewritten_story\":\"b\",\"changes_made\":[\"c\"", "]", "}" >>

Docs == {PolishDoc, AnalysisDoc, BracesDoc, CommaDoc, FenceDoc}

PlainProse == {"", "Here is the result:\n", "\nHope this helps! "}
MarkedProse == {"See [1]: ", " {thanks}", Fence \o "js\nx\n" \o Fence \o "\n"}
Prose == PlainProse \cup MarkedProse

FenceOpeners == {"", Fence, Fence \o "json\n"}

\* texts that hold no object and no array
BareTexts == {"", "I cannot help with that.", "42", "\"just a title\"", "true",
              Fence \o "\n42\n" \o Fence, "rate: 3 > 2"}

DocInputs ==
    [kind : {"doc"}, doc : Docs, pre : Prose, post : Prose,
     fence : FenceOpeners, commas : BOOLEAN]

BareInputs ==
    {[kind |-> "bare", doc |-> <<t>>, pre |-> "", post |-> "", fence |-> "", commas |-> FALSE] :
        t \in BareTexts}

\* texts that hold an opener with no matching closer after it: a response cut
\* short, and prose with a stray opener
CutTexts == {"{\"title\":\"Fox\",\"characters\":[{\"name\":\"Fox\"}]", "[\"cut\", \"named",
             "42 {", "done } see {a", "1] [2"}

CutInputs ==
    {[kind |-> "cut", doc |-> <<t>>, pre |-> "", post |-> "", fence |-> "", commas |-> FALSE] :
        t \in CutTexts}

\* the JSON text of the input's document as the model was asked for it
docText(in) == join(in.doc, "")

\* the text the model returned for it
assemble(in) ==
    in.pre \o in.fence
           \o join(in.doc, IF in.commas THEN "," ELSE "")
           \o (IF in.fence = "" THEN "" ELSE "\n" \o Fence)
           \o in.post

NotRun == [kind |-> "notrun", v |-> Undefined]

(***************************************************************************)
(* The errors the classifier is run on                                     *)
(***************************************************************************)
Messages ==
    {"Requested entity was not found.", "REQUESTED ENTITY WAS NOT FOUND",
     "Model not found", "Not Found", "HTTP 404", "error404", "rate limit exceeded",
     "", "quota exceeded for model 40 4"}

StatusValues == {Undefined, Str("NOT_FOUND"), Str("not_found"), Num("404"), Str("404"), Num("500")}
CodeValues   == {Undefined, Num("404"), Str("404"), Num("429")}

Errors == [t : {"Error"}, message : Messages, status : StatusValues, code : CodeValues]

NoError == [t |-> "Error", message |-> "", status |-> Undefined, code |-> Undefined]

(***************************************************************************)
(* The engine calls on the primary provider.                               *)
(*                                                                         *)
(* call.pc is the await the call is suspended at.  call.log holds, in      *)
(* order, one entry per attempt started and per awaited operation: the     *)
(* entry is appended when the operation is started (reply = NotRun) and    *)
(* completed with the operation's outcome when it settles.                 *)
(***************************************************************************)
Ops == {"analyze", "polish", "image", "video"}

MaxPolls == 2   \* not-done observations the provider may answer in one call

\* what the provider's SDK throws
ProviderErrors ==
    { Error("Requested entity was not found."),
      [t |-> "Error", message |-> "Not Found", status |-> Undefined, code |-> Num("404")],
      Error("rate limit exceeded") }

\* what window.aistudio.openSelectKey() rejects with when it fails
SelectErrors == { Error("Key selection was dismissed") }

\* response.text of a generateContent response
Response(text) == [t |-> "response", text |-> text]
ResponseTexts(op) ==
    {"", "{}", "I cannot help with that.",
     IF op = "polish" THEN join(PolishDoc, "") ELSE join(AnalysisDoc, "")}

\* response.candidates?.[0]?.content?.parts of an image response: Undefined
\* or a sequence of parts [data, mimeType, text] (inlineData.data,
\* inlineData.mimeType, text; "" when the field is missing)
Parts(q)   == [t |-> "parts", v |-> q]
ImagePart  == [data |-> "iVBOR", mimeType |-> "image/webp", text |-> ""]
TextPart(x) == [data |-> "", mimeType |-> "", text |-> x]
\* a text of more than the 100 characters the refusal error keeps
LongText ==
    "I am unable to draw this scene because it depicts a real person; please describe a fictional character instead."
ImageReplies ==
    {Undefined, Parts(<<>>), Parts(<<ImagePart>>), Parts(<<TextPart("I cannot draw that."), ImagePart>>),
     Parts(<<TextPart("I cannot"), TextPart("draw that.")>>),
     Parts(<<TextPart("I cannot draw Room 404.")>>), Parts(<<TextPart(LongText)>>)}

\* response.generatedImages?.[0]?.image?.imageBytes of an Imagen response
ImagenReplies == {Str(""), Str("/9j/4A")}

\* a video operation: done, and response?.generatedVideos?.[0]?.video?.uri
Operation(done, uri) == [t |-> "operation", done |-> done, uri |-> uri]
VideoUri == "https://host/v1/files/1:download?alt=media"
OperationReplies ==
    {Operation(FALSE, ""), Operation(TRUE, ""), Operation(TRUE, VideoUri)}

Entry(ev) == [ev |-> ev, reply |-> NotRun]

\* the log with the outcome of its last entry filled in
replied(c, reply) ==
    [c EXCEPT !.log = [@ EXCEPT ![Len(@)] = [@ EXCEPT !.reply = reply]]]

\* the call suspends at an await on operation ev
await(c, ev) == [c EXCEPT !.pc = ev, !.log = Append(@, Entry(ev))]

resolve(c, v) == [c EXCEPT !.pc = "resolved", !.settled = Return(v)]
reject(c, e)  == [c EXCEPT !.pc = "rejected", !.settled = Throw(e)]

\* getGoogleClient with the process-level key taken first
getGoogleClientEnvFirst(c, env) ==
    IF c.cfgKey \/ env THEN Return(Str(IF env THEN "env" ELSE "cfg"))
    ELSE Throw(Error("Google API Key is missing"))

\* getGoogleClient(config.apiKey): apiKey || process.env.API_KEY
getGoogleClient(c, env) ==
    IF c.cfgKey \/ env THEN Return(Str(IF c.cfgKey THEN "cfg" ELSE "env"))
    ELSE Throw(Error("Google API Key is missing"))

\* attempt(isRetry), up to its first await
attempt(c0, isRetry, env) ==
    LET c == [c0 EXCEPT !.isRetry = isRetry, !.log = Append(@, Entry("attempt"))]
        ai == getGoogleClient(c, env)
        \* generateVeoVideo: let apiKey = process.env.API_KEY, or config.apiKey
        apiKey == IF c.cfgKey THEN "cfg" ELSE IF env THEN "env" ELSE "none"
    IN  CASE c.op \in {"analyze", "polish"} ->
               IF ai.kind = "throw" THEN reject(c, ai.v)
               ELSE await([c EXCEPT !.apiKey = ai.v.v], "strict")
          [] c.op = "image" ->
               IF ai.kind = "throw" THEN reject(c, ai.v)
               ELSE await([c EXCEPT !.apiKey = ai.v.v],
                          IF c.imagen THEN "generateImages" ELSE "generateContent")
          [] c.op = "video" ->
               IF apiKey = "none" /\ aistudio
               THEN await([c EXCEPT !.apiKey = apiKey], "preselect")
               ELSE IF apiKey = "none"
               THEN reject(c, Error("Google API Key required for Veo video generation."))
               ELSE await([c EXCEPT !.apiKey = apiKey], "generateVideos")

\* the catch clause without its !isRetry test
catchEveryTime(c, e) ==
    IF isAuthError(e) /\ aistudio
    THEN await(c, "openSelectKey")
    ELSE IF c.op = "image"
    THEN reject(c, Error("Image Generation Failed: " \o e.message))
    ELSE reject(c, e)

\* the catch clause without its isAuthError test
catchAnyError(c, e) ==
    IF ~c.isRetry /\ aistudio
    THEN await(c, "openSelectKey")
    ELSE IF c.op = "image"
    THEN reject(c, Error("Image Generation Failed: " \o e.message))
    ELSE reject(c, e)

\* the catch clause without its window.aistudio test
catchWithoutCapability(c, e) ==
    IF ~c.isRetry /\ isAuthError(e)
    THEN await(c, "openSelectKey")
    ELSE IF c.op = "image"
    THEN reject(c, Error("Image Generation Failed: " \o e.message))
    ELSE reject(c, e)

\* the catch clause of generateAssetImage in all four engines
catchWrapsAll(c, e) ==
    IF ~c.isRetry /\ isAuthError(e) /\ aistudio
    THEN await(c, "openSelectKey")
    ELSE reject(c, Error("Image Generation Failed: " \o e.message))

\* the catch clause that closes attempt's try block
catch(c, e) ==
    IF ~c.isRetry /\ isAuthError(e) /\ aistudio
    THEN await(c, "openSelectKey")
    ELSE IF c.op = "image"
    THEN reject(c, Error("Image Generation Failed: " \o e.message))
    ELSE reject(c, e)

\* the messages of the errors the engines raise on an empty text
NoTextMessage(op, ev) ==
    CASE op = "analyze" /\ ev = "strict"   -> "No analysis generated from Google. Content might be blocked."
      [] op = "analyze" /\ ev = "fallback" -> "No analysis generated from Google (Fallback)."
      [] op = "polish"  /\ ev = "strict"   -> "No polish generated from Google."
      [] op = "polish"  /\ ev = "fallback" -> "No polish generated from Google (Fallback)."

\* what the code between a generateContent await and its return makes of the
\* reply: the parsed value, or the error thrown
textOutcome(c, reply) ==
    IF reply.kind = "throw" THEN reply
    ELSE IF reply.v.text = "" THEN Throw(Error(NoTextMessage(c.op, c.pc)))
    ELSE safeJSONParse(reply.v.text)

\* the inner catch clause without its isAuthError test
strictSettledAlwaysFallback(c1, out) ==
    IF out.kind = "return" THEN resolve(c1, out.v) ELSE await(c1, "fallback")

\* the attempt without its inner try block: whatever the strict request
\* raises goes to the retry handler
strictSettledNoFallback(c1, out) ==
    IF out.kind = "return" THEN resolve(c1, out.v) ELSE catch(c1, out.v)

\* analyzeStoryGoogle / polishStory: the strict request has settled
strictSettled(c1, out) ==
    IF out.kind = "return" THEN resolve(c1, out.v)
    ELSE IF isAuthError(out.v) THEN catch(c1, out.v)
    ELSE await(c1, "fallback")

afterStrict(c, reply) == strictSettled(replied(c, reply), textOutcome(c, reply))

\* the end of a try block whose catch clause is the retry handler
finish(c1, out) ==
    IF out.kind = "return" THEN resolve(c1, out.v) ELSE catch(c1, out.v)

\* the fallback branch with its request issued once more after a first
\* failure of the fallback request
afterFallbackOnceMore(c, reply) ==
    IF textOutcome(c, reply).kind = "throw"
       /\ Cardinality({i \in 1..Len(c.log) : c.log[i].ev = "fallback"}) < 2
    THEN await(replied(c, reply), "fallback")
    ELSE finish(replied(c, reply), textOutcome(c, reply))

\* analyzeStoryGoogle / polishStory: the fallback request has settled
afterFallback(c, reply) == finish(replied(c, reply), textOutcome(c, reply))

\* generateAssetImage, Gemini branch: what the code after generateContent
\* makes of the reply
hasData(part) == part.data # ""
hasText(part) == part.text # ""
partText(parts) == [i \in 1..Len(parts) |-> parts[i].text]

NoImage == Throw(Error("No image generated by Gemini (Response empty)"))

imageFromParts(found, textParts) ==
    IF Len(found) > 0
    THEN Return(Str("data:" \o (IF found[1].mimeType # "" THEN found[1].mimeType ELSE "image/png")
                           \o ";base64," \o found[1].data))
    ELSE IF textParts # ""
    THEN Throw(Error("Model refused to generate image: " \o substring(textParts, 0, 100) \o "..."))
    ELSE NoImage

imageOutcome(reply) ==
    IF reply.kind = "throw" THEN reply
    ELSE IF reply.v = Undefined THEN NoImage
    ELSE imageFromParts(SelectSeq(reply.v.v, hasData),
                        join(partText(SelectSeq(reply.v.v, hasText)), " "))

\* generateAssetImage, Imagen branch
imagenOutcome(reply) ==
    IF reply.kind = "throw" THEN reply
    ELSE IF reply.v.v # "" THEN Return(Str("data:image/jpeg;base64," \o reply.v.v))
    ELSE Throw(Error("No image data returned from Imagen."))

\* generateAssetImage.attempt: the image request has settled
afterImage(c, reply) ==
    finish(replied(c, reply), IF c.imagen THEN imagenOutcome(reply) ELSE imageOutcome(reply))

\* generateVeoVideo.attempt: the key prompt that precedes the try block has
\* settled; apiKey = process.env.API_KEY is read again
afterPreselect(c, reply, env) ==
    LET c1 == replied(c, reply)
    IN  IF reply.kind = "throw" THEN reject(c1, reply.v)
        ELSE IF ~env THEN reject(c1, Error("Google API Key required for Veo video generation."))
        ELSE await([c1 EXCEPT !.apiKey = "env"], "generateVideos")

\* the not-done observations of the call so far
notDone(c) == Cardinality({i \in 1..Len(c.log) :
                  c.log[i].reply.kind = "return" /\ c.log[i].reply.v.t = "operation"
                  /\ ~c.log[i].reply.v.done})

\* the while loop without its timer
pollLoopNoSleep(c, operation) ==
    IF ~operation.done THEN await(c, "getVideosOperation")
    ELSE IF operation.uri = ""
    THEN catch(c, Error("Video generation failed or no URI returned."))
    ELSE await(c, "fetch")

\* the while loop giving up at the second not-done observation
pollLoopGivesUp(c, operation) ==
    IF ~operation.done /\ notDone(c) >= 2
    THEN catch(c, Error("Video generation timed out."))
    ELSE IF ~operation.done THEN await(c, "sleep")
    ELSE IF operation.uri = ""
    THEN catch(c, Error("Video generation failed or no URI returned."))
    ELSE await(c, "fetch")

\* the code after the while loop without its test of videoUri
pollLoopNoUriCheck(c, operation) ==
    IF ~operation.done THEN await(c, "sleep") ELSE await(c, "fetch")

\* generateVeoVideo.attempt: the while loop and what follows it, entered with
\* the operation last fetched
pollLoop(c, operation) ==
    IF ~operation.done THEN await(c, "sleep")
    ELSE IF operation.uri = ""
    THEN catch(c, Error("Video generation failed or no URI returned."))
    ELSE await(c, "fetch")

\* generateVideos or getVideosOperation has settled
afterOperation(c, reply) ==
    LET c1 == replied(c, reply)
    IN  IF reply.kind = "throw" THEN catch(c1, reply.v) ELSE pollLoop(c1, reply.v)

\* the 5 second timer has fired
afterSleep(c) == await(replied(c, Return(Undefined)), "getVideosOperation")

\* fetch(downloadUrl) has settled
afterFetch(c, reply) ==
    LET c1 == replied(c, reply)
    IN  IF reply.kind = "throw" THEN catch(c1, reply.v) ELSE await(c1, "blob")

\* res.blob() has settled
afterBlob(c, reply) ==
    LET c1 == replied(c, reply)
    IN  IF reply.kind = "throw" THEN catch(c1, reply.v)
        ELSE resolve(c1, Str("blob:video"))

\* the catch clause calling attempt(false) where it has attempt(true)
afterSelectFirstAttempt(c, reply, env) ==
    IF reply.kind = "throw" THEN reject(replied(c, reply), reply.v)
    ELSE attempt(replied(c, reply), FALSE, env)

\* the catch clause writing the reselected key into the configuration
afterSelectStoresKey(c, reply, env) ==
    IF reply.kind = "throw" THEN reject(replied(c, reply), reply.v)
    ELSE attempt([replied(c, reply) EXCEPT !.cfgKey = TRUE], TRUE, env)

\* openSelectKey(), awaited in the catch clause, has settled
afterSelect(c, reply, env) ==
    LET c1 == replied(c, reply)
    IN  IF reply.kind = "throw" THEN reject(c1, reply.v) ELSE attempt(c1, TRUE, env)

(***************************************************************************)
(* The call as a process: one action per await that settles                *)
(***************************************************************************)
NoCall ==
    [op |-> "none", cfgKey |-> FALSE, imagen |-> FALSE, pc |-> "idle", isRetry |-> FALSE,
     apiKey |-> "none", log |-> <<>>, settled |-> NotRun]

CallIdle == call = NoCall /\ envKey = FALSE /\ aistudio = FALSE

\* GenerationState, and the App component once mounted with an empty
\* project store: createNewProject has made the first project
GenerationState(step, isAnalyzing) == [step |-> step, isAnalyzing |-> isAnalyzing]
StoryProject(content, title, assets, plotPoints, state) ==
    [content |-> content, title |-> title, assets |-> assets, plotPoints |-> plotPoints,
     state |-> state]
NewProject == StoryProject("", 0, <<>>, <<>>, GenerationState("input", FALSE))

\* SavedModel: a model is known by the number it was created with (its
\* crypto.randomUUID()); of its fields the provider is kept
SavedModel(id, provider) == [id |-> id, provider |-> provider]

\* undefined, and the null draftModel
NoModel == SavedModel(0, "")

\* the model that the load effect and handleDelete make when there is none
DefaultModel(id) == SavedModel(id, "google")

\* localStorage without the keys folktale_saved_models and
\* folktale_active_model_id
NoStore == [models |-> <<>>, activeId |-> 0, present |-> FALSE]

\* the model configuration once App has mounted in a browser that holds no
\* saved models, and the settings dialog mounted with it: id 0 is the empty
\* string
NoSettings ==
    [savedModels |-> <<DefaultModel(1)>>, activeModelId |-> 1, stored |-> NoStore,
     isSettingsOpen |-> FALSE, models |-> <<DefaultModel(1)>>, selectedId |-> 1,
     draftModel |-> DefaultModel(1), made |-> 1]

NoApp ==
    [currentProjectId |-> 1, story |-> "", projectTitle |-> 0, assets |-> <<>>,
     plotPoints |-> <<>>, state |-> GenerationState("input", FALSE),
     currentPlayingIndex |-> -1, isPolishing |-> FALSE,
     projects |-> (1 :> NewProject), made |-> 1,
     pending |-> {}, started |-> [analyze |-> 0, image |-> 0, video |-> 0],
     settings |-> NoSettings, draggedAssetId |-> <<>>, lastEvent |-> <<"none">>]
AppIdle == app = NoApp

Rest == UNCHANGED <<raw, input, extracted, console, err, authClass, aistudio, app>>

\* analyzeStory, polishStory, generateAssetImage or generateVeoVideo is called
Invoke ==
    /\ call.pc = "idle"
    /\ \E op \in Ops, cfgKey \in BOOLEAN, imagen \in BOOLEAN :
          /\ imagen => op = "image"
          /\ call' = attempt([NoCall EXCEPT !.op = op, !.cfgKey = cfgKey, !.imagen = imagen],
                             FALSE, envKey)
    /\ UNCHANGED envKey
    /\ Rest

StrictReply ==
    /\ call.pc = "strict"
    /\ \E reply \in {Throw(e) : e \in ProviderErrors}
                    \cup {Return(Response(x)) : x \in ResponseTexts(call.op)} :
          call' = afterStrict(call, reply)
    /\ UNCHANGED envKey
    /\ Rest

FallbackReply ==
    /\ call.pc = "fallback"
    /\ \E reply \in {Throw(e) : e \in ProviderErrors}
                    \cup {Return(Response(x)) : x \in ResponseTexts(call.op)} :
          call' = afterFallback(call, reply)
    /\ UNCHANGED envKey
    /\ Rest

ImageReply ==
    /\ call.pc \in {"generateContent", "generateImages"}
    /\ \E reply \in {Throw(e) : e \in ProviderErrors}
                    \cup {Return(x) : x \in IF call.imagen THEN ImagenReplies ELSE ImageReplies} :
          call' = afterImage(call, reply)
    /\ UNCHANGED envKey
    /\ Rest

\* openSelectKey settles: the user may have put a key into process.env.API_KEY
PreselectReply ==
    /\ call.pc = "preselect"
    /\ \/ \E e \in SelectErrors :
             /\ call' = afterPreselect(call, Throw(e), envKey)
             /\ UNCHANGED envKey
       \/ \E env \in {envKey, TRUE} :
             /\ envKey' = env
             /\ call' = afterPreselect(call, Return(Undefined), env)
    /\ Rest

SelectReply ==
    /\ call.pc = "openSelectKey"
    /\ \/ \E e \in SelectErrors :
             /\ call' = afterSelect(call, Throw(e), envKey)
             /\ UNCHANGED envKey
       \/ \E env \in {envKey, TRUE} :
             /\ envKey' = env
             /\ call' = afterSelect(call, Return(Undefined), env)
    /\ Rest

OperationReply ==
    /\ call.pc \in {"generateVideos", "getVideosOperation"}
    /\ \E reply \in {Throw(e) : e \in ProviderErrors}
                    \cup {Return(o) : o \in OperationReplies} :
          /\ (reply.kind = "return" /\ ~reply.v.done) => notDone(call) < MaxPolls
          /\ call' = afterOperation(call, reply)
    /\ UNCHANGED envKey
    /\ Rest

SleepDone ==
    /\ call.pc = "sleep"
    /\ call' = afterSleep(call)
    /\ UNCHANGED envKey
    /\ Rest

FetchReply ==
    /\ call.pc = "fetch"
    /\ \E reply \in {Throw(Error("Failed to fetch")), Return(Undefined)} :
          call' = afterFetch(call, reply)
    /\ UNCHANGED envKey
    /\ Rest

BlobReply ==
    /\ call.pc = "blob"
    /\ \E reply \in {Throw(Error("Failed to fetch")), Return(Undefined)} :
          call' = afterBlob(call, reply)
    /\ UNCHANGED envKey
    /\ Rest

(***************************************************************************)
(* Each part of the program at rest                                        *)
(***************************************************************************)
NoInput == [kind |-> "none", doc |-> <<>>, pre |-> "", post |-> "", fence |-> "", commas |-> FALSE]

ExtractIdle  == raw = "" /\ input = NoInput /\ extracted = NotRun /\ console = <<>>
ClassifyIdle == err = NoError /\ authClass = "notrun"

(***************************************************************************)
(* The extractor run on one text                                           *)
(***************************************************************************)
\* the console.error call with the text trimmed
parseFailureLogTrimmed(text) == <<"Failed to parse JSON:", trim(text)>>

\* console.error("Failed to parse JSON:", text)
parseFailureLog(text) == <<"Failed to parse JSON:", text>>

\* what a run of safeJSONParse that ended with out wrote to the error console
consoleError(text, out) == IF out.kind = "throw" THEN parseFailureLog(text) ELSE <<>>

Extract ==
    /\ input.kind # "none"
    /\ extracted = NotRun
    /\ \E out \in {safeJSONParse(raw)} :
          /\ extracted' = out
          /\ console' = consoleError(raw, out)
    /\ UNCHANGED <<raw, input, err, authClass, call, envKey, aistudio, app>>

(***************************************************************************)
(* The classifier run on one error                                         *)
(***************************************************************************)
Classify ==
    /\ authClass = "notrun"
    /\ err # NoError
    /\ authClass' = IF isAuthError(err) THEN "auth" ELSE "other"
    /\ UNCHANGED <<raw, input, extracted, console, err, call, envKey, aistudio, app>>


(***************************************************************************)
(* Specifications                                                          *)
(***************************************************************************)
ExtractInit ==
    /\ input \in DocInputs \cup BareInputs \cup CutInputs
    /\ raw = assemble(input)
    /\ extracted = NotRun
    /\ console = <<>>
    /\ ClassifyIdle
    /\ CallIdle
    /\ AppIdle

ExtractNext == Extract

SpecExtract == ExtractInit /\ [][ExtractNext]_vars

ClassifyInit ==
    /\ err \in Errors \ {NoError}
    /\ authClass = "notrun"
    /\ ExtractIdle
    /\ CallIdle
    /\ AppIdle

ClassifyNext == Classify

SpecClassify == ClassifyInit /\ [][ClassifyNext]_vars

\* the promise of the call is settled and its caller goes on: nothing of
\* the call is kept
CallReturn ==
    /\ call.pc \in {"resolved", "rejected"}
    /\ call' = NoCall
    /\ UNCHANGED envKey
    /\ Rest

Init ==
    /\ call = NoCall
    /\ envKey \in BOOLEAN
    /\ aistudio \in BOOLEAN
    /\ ExtractIdle
    /\ ClassifyIdle
    /\ AppIdle

Next ==
    \/ Invoke
    \/ StrictReply
    \/ FallbackReply
    \/ ImageReply
    \/ PreselectReply
    \/ SelectReply
    \/ OperationReply
    \/ SleepDone
    \/ FetchReply
    \/ BlobReply
    \/ CallReturn

Spec == Init /\ [][Next]_vars

\* the status request answered with a finished job that holds a URI: one of
\* the answers of OperationReply
OperationDone ==
    /\ call.pc \in {"generateVideos", "getVideosOperation"}
    /\ call' = afterOperation(call, Return(Operation(TRUE, VideoUri)))
    /\ UNCHANGED envKey
    /\ Rest

\* the operations a video call awaits settle in the end: the key dialog
\* closes, the provider answers the status request (it does not stay
\* answerable for ever without an answer), the timer fires, the download ends
FairSpec ==
    /\ Spec
    /\ WF_vars(PreselectReply) /\ WF_vars(SelectReply)
    /\ WF_vars(OperationDone) /\ WF_vars(SleepDone)
    /\ WF_vars(FetchReply) /\ WF_vars(BlobReply)

\* the operations an analysis or polish call awaits settle in the end: the
\* key dialog closes, and the provider answers each generateContent request.
\* StrictReply is enabled exactly when the call is at "strict" and a step of
\* it moves the call on, so its weak fairness is stated on the position of
\* the call; likewise for FallbackReply
FairText ==
    /\ Spec
    /\ WF_vars(SelectReply)
    /\ []<>(call.pc # "strict")
    /\ []<>(call.pc # "fallback")

(***************************************************************************)
(* The connection test, and the engine calls on an OpenAI-compatible       *)
(* provider.  The call record holds the provider, whether config.apiKey    *)
(* is set, whether config.imageModel names a dall-e model, and the flags   *)
(* and the Authorization header of the request body that was built.        *)
(***************************************************************************)
\* ProviderType; qwen and volcengine are handled as custom is
Providers == {"google", "openai", "custom", "ollama"}

\* a fetch Response: status, and ok for the statuses 200..299
HttpResponse(status, ok) == [t |-> "httpresponse", status |-> status, ok |-> ok]
HttpResponses ==
    {HttpResponse("200", TRUE), HttpResponse("401", FALSE), HttpResponse("404", FALSE),
     HttpResponse("500", FALSE)}

\* what fetch, response.text() and response.json() reject with
NetworkErrors == {Error("Failed to fetch")}

\* what response.text() resolves with
Bodies == {"", "Unauthorized", "{\"error\":{\"message\":\"model not found\"}}"}

\* what response.json() resolves with, reduced to the field the engine
\* reads: choices[0].message.content, or data[0].b64_json
Data(v) == [t |-> "data", v |-> v]
DataReplies(op) ==
    IF op = "image" THEN {Data(Undefined), Data(Str("iVBOR"))}
    ELSE {Data(Undefined)} \cup {Data(Str(x)) : x \in ResponseTexts(op)}

NoRequest ==
    [op |-> "none", provider |-> "none", cfgKey |-> FALSE, dalle |-> FALSE, pc |-> "idle",
     isRetry |-> FALSE, flags |-> {}, auth |-> FALSE, apiKey |-> "none", log |-> <<>>,
     settled |-> NotRun]

\* the number of log entries of operation ev
count(c, ev) == Cardinality({i \in 1..Len(c.log) : c.log[i].ev = ev})

\* the provider-specific fields of the request body
bodyFlags(provider) ==
    IF provider = "openai" THEN {"response_format"}
    ELSE IF provider = "ollama" THEN {"format", "stream"}
    ELSE {}

\* testModelConnection without the try block around getGoogleClient
testModelConnectionThrows(c, env) ==
    IF c.provider = "google"
    THEN IF c.cfgKey \/ env THEN await(c, "generateContent")
         ELSE reject(c, Error("Google API Key is missing"))
    ELSE await([c EXCEPT !.auth = c.cfgKey], "fetch")

\* testModelConnection, up to its await
testModelConnection(c, env) ==
    IF c.provider = "google"
    THEN IF c.cfgKey \/ env THEN await(c, "generateContent")
         ELSE resolve(c, Lit("false"))
    ELSE await([c EXCEPT !.auth = c.cfgKey], "fetch")

\* testModelConnection: the probe request has settled
afterProbe(c, reply) ==
    IF reply.kind = "throw" THEN resolve(replied(c, reply), Lit("false"))
    ELSE IF c.provider # "google" /\ ~reply.v.ok THEN resolve(replied(c, reply), Lit("false"))
    ELSE resolve(replied(c, reply), Lit("true"))

\* generateAssetImage, the fallback to Google: attemptFallback up to its await
attemptFallback(c, isRetry) ==
    await([c EXCEPT !.isRetry = isRetry, !.apiKey = "env", !.log = Append(@, Entry("attempt"))],
          "generateContent")

\* the dispatch of generateAssetImage without the test of process.env.API_KEY
compatCallNoKeyTest(c, env) ==
    IF c.op \in {"analyze", "polish"}
    THEN await([c EXCEPT !.flags = bodyFlags(c.provider), !.auth = c.cfgKey], "fetch")
    ELSE IF c.provider = "openai" \/ (c.provider = "custom" /\ c.dalle)
    THEN await([c EXCEPT !.auth = TRUE], "fetch")
    ELSE attemptFallback(c, FALSE)

\* analyzeStoryOpenAICompatible, the else branch of polishStory, and
\* generateAssetImage with a provider that is not google, up to the await
compatCall(c, env) ==
    IF c.op \in {"analyze", "polish"}
    THEN await([c EXCEPT !.flags = bodyFlags(c.provider), !.auth = c.cfgKey], "fetch")
    ELSE IF c.provider = "openai" \/ (c.provider = "custom" /\ c.dalle)
    THEN await([c EXCEPT !.auth = TRUE], "fetch")
    ELSE IF env THEN attemptFallback(c, FALSE)
    ELSE reject(c, Error("Selected provider does not support image generation and no fallback Google key available."))

\* the status line handler retrying the request once
afterHttpRetry(c, reply) ==
    IF reply.kind = "throw" THEN reject(replied(c, reply), reply.v)
    ELSE IF reply.v.ok THEN await(replied(c, reply), "json")
    ELSE IF count(c, "fetch") < 2 THEN await(replied(c, reply), "fetch")
    ELSE IF c.op = "polish"
    THEN reject(replied(c, reply), Error("Polish request failed: " \o reply.v.status))
    ELSE await(replied(c, reply), "text")

\* fetch(endpoint) has settled
afterHttp(c, reply) ==
    IF reply.kind = "throw" THEN reject(replied(c, reply), reply.v)
    ELSE IF reply.v.ok THEN await(replied(c, reply), "json")
    ELSE IF c.op = "polish"
    THEN reject(replied(c, reply), Error("Polish request failed: " \o reply.v.status))
    ELSE await(replied(c, reply), "text")

\* the status of the response the call holds
responseStatus(c) == c.log[Len(c.log) - 1].reply.v.status

\* response.text() of a response that is not ok has settled
afterText(c, reply) ==
    IF reply.kind = "throw" THEN reject(replied(c, reply), reply.v)
    ELSE IF c.op = "image"
    THEN reject(replied(c, reply), Error("OpenAI Image Gen failed: " \o reply.v.v))
    ELSE reject(replied(c, reply),
                Error("Model request failed: " \o responseStatus(c) \o " " \o reply.v.v))

settle(c1, out) == IF out.kind = "return" THEN resolve(c1, out.v) ELSE reject(c1, out.v)

\* what the code after response.json() makes of the data
dataOutcome(c, content) ==
    IF c.op = "image"
    THEN IF content = Undefined THEN Throw(Error("No image returned from OpenAI"))
         ELSE Return(Str("data:image/png;base64," \o content.v))
    ELSE IF content = Undefined \/ content.v = ""
    THEN Throw(Error(IF c.op = "analyze" THEN "Empty response from model" ELSE "Empty response"))
    ELSE safeJSONParse(content.v)

\* response.json() has settled
afterJson(c, reply) ==
    IF reply.kind = "throw" THEN reject(replied(c, reply), reply.v)
    ELSE settle(replied(c, reply), dataOutcome(c, reply.v.v))

\* attemptFallback: what the code after generateContent makes of the reply
fallbackOutcome(reply, found) ==
    IF reply.kind = "throw" THEN reply
    ELSE IF Len(found) > 0
    THEN Return(Str("data:" \o (IF found[1].mimeType # "" THEN found[1].mimeType ELSE "image/png")
                           \o ";base64," \o found[1].data))
    ELSE Throw(Error("Fallback produced no image"))

\* the catch clause of attemptFallback
catchFallback(c1, out) ==
    IF out.kind = "return" THEN resolve(c1, out.v)
    ELSE IF ~c1.isRetry /\ isAuthError(out.v) /\ aistudio THEN await(c1, "openSelectKey")
    ELSE reject(c1, out.v)

\* attemptFallback: generateContent has settled
afterFallbackImage(c, reply) ==
    catchFallback(replied(c, reply),
        fallbackOutcome(reply, IF reply.kind = "throw" \/ reply.v = Undefined THEN <<>>
                               ELSE SelectSeq(reply.v.v, hasData)))

\* attemptFallback: openSelectKey has settled
afterFallbackSelect(c, reply) ==
    IF reply.kind = "throw" THEN reject(replied(c, reply), reply.v)
    ELSE attemptFallback(replied(c, reply), TRUE)

RequestRest == UNCHANGED <<raw, input, extracted, console, err, authClass, envKey, aistudio, app>>

\* testModelConnection is called
Probe ==
    /\ call.pc = "idle"
    /\ \E provider \in Providers, cfgKey \in BOOLEAN :
          call' = testModelConnection(
                      [NoRequest EXCEPT !.op = "test", !.provider = provider, !.cfgKey = cfgKey],
                      envKey)
    /\ RequestRest

ProbeReply ==
    /\ call.op = "test"
    /\ call.pc \in {"generateContent", "fetch"}
    /\ \E reply \in {Throw(e) : e \in ProviderErrors \cup NetworkErrors}
                    \cup (IF call.provider = "google" THEN {Return(Response("Hi"))}
                          ELSE {Return(r) : r \in HttpResponses}) :
          call' = afterProbe(call, reply)
    /\ RequestRest

\* analyzeStory, polishStory or generateAssetImage is called with a provider
\* that is not google
CompatInvoke ==
    /\ call.pc = "idle"
    /\ \E op \in {"analyze", "polish", "image"}, provider \in Providers \ {"google"},
          cfgKey \in BOOLEAN, dalle \in BOOLEAN :
          /\ dalle => op = "image"
          /\ call' = compatCall([NoRequest EXCEPT !.op = op, !.provider = provider,
                                                  !.cfgKey = cfgKey, !.dalle = dalle], envKey)
    /\ RequestRest

HttpReply ==
    /\ call.op \in {"analyze", "polish", "image"}
    /\ call.pc = "fetch"
    /\ \E reply \in {Throw(e) : e \in NetworkErrors} \cup {Return(r) : r \in HttpResponses} :
          call' = afterHttp(call, reply)
    /\ RequestRest

TextReply ==
    /\ call.pc = "text"
    /\ \E reply \in {Throw(e) : e \in NetworkErrors} \cup {Return(Str(b)) : b \in Bodies} :
          call' = afterText(call, reply)
    /\ RequestRest

JsonReply ==
    /\ call.pc = "json"
    /\ \E reply \in {Throw(Error("Unexpected token < in JSON at position 0"))}
                    \cup {Return(d) : d \in DataReplies(call.op)} :
          call' = afterJson(call, reply)
    /\ RequestRest

FallbackImageReply ==
    /\ call.op = "image"
    /\ call.pc = "generateContent"
    /\ \E reply \in {Throw(e) : e \in ProviderErrors} \cup {Return(x) : x \in ImageReplies} :
          call' = afterFallbackImage(call, reply)
    /\ RequestRest

FallbackSelectReply ==
    /\ call.pc = "openSelectKey"
    /\ \E reply \in {Throw(e) : e \in SelectErrors} \cup {Return(Undefined)} :
          call' = afterFallbackSelect(call, reply)
    /\ RequestRest

RequestInit ==
    /\ call = NoRequest
    /\ envKey \in BOOLEAN
    /\ aistudio \in BOOLEAN
    /\ ExtractIdle
    /\ ClassifyIdle
    /\ AppIdle

RequestNext ==
    \/ Probe
    \/ ProbeReply
    \/ CompatInvoke
    \/ HttpReply
    \/ TextReply
    \/ JsonReply
    \/ FallbackImageReply
    \/ FallbackSelectReply

SpecRequest == RequestInit /\ [][RequestNext]_vars

(***************************************************************************)
(* The App component.  A project is known by the number it was created     *)
(* with, an analysis, an image and a video by the number of the call that   *)
(* returned it; an asset or plot point <<n, k>> is item k of analysis n.    *)
(* projectTitle 0 is the empty title (isTitleCustom false), currentPlaying  *)
(* Index -1 is null.  The auto-save effect runs at the end of every action. *)
(***************************************************************************)
MaxProjects == 2
MaxAnalyses == 2
MaxImages == 2
MaxVideos == 2

Stories == {"", "Once upon a time"}
NegativePrompts == {"", "no text"}

\* of an analysis the first asset is a character and the second a scene
StoryAsset(id) ==
    [id |-> id, type |-> IF id[2] = 1 THEN "CHARACTER" ELSE "SCENE", isGenerating |-> FALSE,
     imageUrl |-> 0, negativePrompt |-> ""]
PlotPoint(id) == [id |-> id, status |-> "idle", videoUrl |-> 0]

\* an engine call in flight: the configuration it was given, and what the
\* closure of its handler holds
Pending(kind, n, id, config, a) ==
    [kind |-> kind, n |-> n, id |-> id, config |-> config, from |-> a.currentProjectId,
     state |-> a.state]

hasVideo(p) == p.videoUrl # 0
validVideos(plotPoints) == SelectSeq(plotPoints, hasVideo)

\* the preview step can be rendered: plotPoints.filter(p => p.videoUrl)
\* [currentPlayingIndex] is an element
rendered(a) ==
    (a.state.step = "preview" /\ a.currentPlayingIndex # -1)
        => a.currentPlayingIndex < Len(validVideos(a.plotPoints))

\* the auto-save effect
hasChanged(existing, a) ==
    \/ existing.content # a.story
    \/ existing.state.step # a.state.step
    \/ existing.title # a.projectTitle
    \/ existing.assets # a.assets
    \/ existing.plotPoints # a.plotPoints

autoSave(a) ==
    IF a.currentProjectId \notin DOMAIN a.projects THEN a
    ELSE IF ~hasChanged(a.projects[a.currentProjectId], a) THEN a
    ELSE [a EXCEPT !.projects[a.currentProjectId] =
             StoryProject(a.story, a.projectTitle, a.assets, a.plotPoints, a.state)]

createNewProject(a) ==
    [a EXCEPT !.projects = @ @@ ((a.made + 1) :> NewProject), !.made = @ + 1,
              !.currentProjectId = a.made + 1, !.story = "", !.assets = <<>>,
              !.plotPoints = <<>>, !.state = GenerationState("input", FALSE),
              !.projectTitle = 0]

loadProject(a, id, project) ==
    [a EXCEPT !.currentProjectId = id, !.story = project.content, !.assets = project.assets,
              !.plotPoints = project.plotPoints, !.state = project.state,
              !.projectTitle = project.title]

without(projects, id) == [p \in DOMAIN projects \ {id} |-> projects[p]]

\* deleteProject; next is updated[0], the first project of the list as the
\* sidebar has sorted it
deleteProject(a, id, updated, next) ==
    IF id # a.currentProjectId THEN [a EXCEPT !.projects = updated]
    ELSE IF DOMAIN updated # {}
    THEN loadProject([a EXCEPT !.projects = updated], next, updated[next])
    ELSE createNewProject([a EXCEPT !.projects = updated])

\* handleAnalyze, up to its await
handleAnalyze(a, n) ==
    [a EXCEPT !.state = GenerationState(a.state.step, TRUE),
              !.started.analyze = n,
              !.pending = @ \cup {Pending("analyze", n, <<>>, "currentModelConfig", a)}]

\* what handleAnalyze makes of analysis n: a character and a scene, two
\* plot points
analysisAssets(n) == <<StoryAsset(<<n, 1>>), StoryAsset(<<n, 2>>)>>
analysisPlotPoints(n) == <<PlotPoint(<<n, 1>>), PlotPoint(<<n, 2>>)>>

\* handleAnalyze after analyzeStory has resolved
analyzed(a, c) ==
    [a EXCEPT !.projectTitle = c.n, !.assets = analysisAssets(c.n),
              !.plotPoints = analysisPlotPoints(c.n),
              !.state = GenerationState("assets", FALSE), !.pending = @ \ {c}]

\* the catch clause of handleAnalyze
analyzeFailed(a, c) ==
    [a EXCEPT !.state = GenerationState(c.state.step, FALSE), !.pending = @ \ {c}]

\* handleAnalyze after analyzeStory has resolved with a value that holds a
\* title and lacks one of the lists: setProjectTitle and setIsTitleCustom
\* have run when analysis.characters.map throws, and the catch clause runs
analyzeThrew(a, c) ==
    [a EXCEPT !.projectTitle = c.n, !.state = GenerationState(c.state.step, FALSE),
              !.pending = @ \ {c}]

\* setAssets(prev => prev.map(a => a.id === id ? {...a, ...updates} : a))
generating(assets, id, flag) ==
    [i \in DOMAIN assets |->
        IF assets[i].id = id THEN [assets[i] EXCEPT !.isGenerating = flag] ELSE assets[i]]
\* the completion clearing the spinner of every asset
withImageClearsAll(assets, id, imageUrl) ==
    [i \in DOMAIN assets |->
        IF assets[i].id = id THEN [assets[i] EXCEPT !.isGenerating = FALSE, !.imageUrl = imageUrl]
        ELSE [assets[i] EXCEPT !.isGenerating = FALSE]]
withImage(assets, id, imageUrl) ==
    [i \in DOMAIN assets |->
        IF assets[i].id = id THEN [assets[i] EXCEPT !.isGenerating = FALSE, !.imageUrl = imageUrl]
        ELSE assets[i]]
handleUpdateAsset(assets, id, negativePrompt) ==
    [i \in DOMAIN assets |->
        IF assets[i].id = id THEN [assets[i] EXCEPT !.negativePrompt = negativePrompt]
        ELSE assets[i]]

\* handleGenerateAsset, up to its await
handleGenerateAsset(a, id, n) ==
    [a EXCEPT !.assets = generating(@, id, TRUE),
              !.started.image = n,
              !.pending = @ \cup {Pending("image", n, id, "currentModelConfig", a)}]

\* setPlotPoints(prev => prev.map(p => p.id === id ? {...p, ...updates} : p))
handleUpdatePlot(plotPoints, id, status, videoUrl) ==
    [i \in DOMAIN plotPoints |->
        IF plotPoints[i].id = id
        THEN [plotPoints[i] EXCEPT !.status = status,
                                   !.videoUrl = IF videoUrl = 0 THEN @ ELSE videoUrl]
        ELSE plotPoints[i]]

\* VideoGenerator.handleGenerate, up to its await: generateVeoVideo is called
\* with three arguments
handleGenerate(a, id, n) ==
    [a EXCEPT !.plotPoints = handleUpdatePlot(@, id, "generating", 0),
              !.started.video = n,
              !.pending = @ \cup {Pending("video", n, id, "undefined", a)}]

\* handlePolish, up to its await
handlePolish(a) ==
    [a EXCEPT !.isPolishing = TRUE,
              !.pending = @ \cup {Pending("polish", 0, <<>>, "currentModelConfig", a)}]

handleVideoEnded(a) ==
    IF a.currentPlayingIndex < Len(validVideos(a.plotPoints)) - 1
    THEN [a EXCEPT !.currentPlayingIndex = @ + 1]
    ELSE [a EXCEPT !.currentPlayingIndex = -1]

AppRest == UNCHANGED <<raw, input, extracted, console, err, authClass, call, envKey, aistudio>>

\* the story textarea of the input step
SetStory ==
    /\ rendered(app)
    /\ app.state.step = "input"
    /\ \E story \in Stories \ {app.story} : app' = autoSave([app EXCEPT !.story = story])
    /\ AppRest

Analyze ==
    /\ rendered(app)
    /\ app.state.step = "input"
    /\ app.story # ""
    /\ ~app.state.isAnalyzing
    /\ app.started.analyze < MaxAnalyses
    /\ app' = autoSave(handleAnalyze(app, app.started.analyze + 1))
    /\ AppRest

AnalyzeSettled ==
    /\ \E c \in app.pending :
          /\ c.kind = "analyze"
          /\ \/ app' = autoSave(analyzed(app, c))
             \/ app' = autoSave(analyzeFailed(app, c))
             \/ app' = autoSave(analyzeThrew(app, c))
    /\ AppRest

Polish ==
    /\ rendered(app)
    /\ app.state.step = "input"
    /\ app.story # ""
    /\ ~app.isPolishing
    /\ app' = autoSave(handlePolish(app))
    /\ AppRest

\* handlePolish: the finally clause (the polish result and the diff dialog
\* it opens are not held in the model)
PolishSettled ==
    /\ \E c \in app.pending :
          /\ c.kind = "polish"
          /\ app' = autoSave([app EXCEPT !.isPolishing = FALSE, !.pending = @ \ {c}])
    /\ AppRest

\* the buttons that lead from one step to the next and back
Steps == {<<"assets", "storyboard">>, <<"storyboard", "assets">>, <<"storyboard", "preview">>,
          <<"preview", "storyboard">>}
GoToStep ==
    /\ rendered(app)
    /\ \E step \in {"assets", "storyboard", "preview"} :
          /\ <<app.state.step, step>> \in Steps
          /\ app' = autoSave([app EXCEPT !.state = GenerationState(step, app.state.isAnalyzing)])
    /\ AppRest

\* AssetCard: the negative prompt is edited
UpdateAsset ==
    /\ rendered(app)
    /\ app.state.step = "assets"
    /\ \E i \in DOMAIN app.assets, negativePrompt \in NegativePrompts :
          /\ negativePrompt # app.assets[i].negativePrompt
          /\ app' = autoSave([app EXCEPT !.assets =
                                 handleUpdateAsset(@, app.assets[i].id, negativePrompt)])
    /\ AppRest

GenerateAsset ==
    /\ rendered(app)
    /\ app.state.step = "assets"
    /\ app.started.image < MaxImages
    /\ \E i \in DOMAIN app.assets :
          /\ ~app.assets[i].isGenerating
          /\ app' = autoSave(handleGenerateAsset(app, app.assets[i].id, app.started.image + 1))
    /\ AppRest

ImageSettled ==
    /\ \E c \in app.pending :
          /\ c.kind = "image"
          /\ \/ app' = autoSave([app EXCEPT !.assets = withImage(@, c.id, c.n),
                                            !.pending = @ \ {c}])
             \/ app' = autoSave([app EXCEPT !.assets = generating(@, c.id, FALSE),
                                            !.pending = @ \ {c}])
    /\ AppRest

GenerateVideo ==
    /\ rendered(app)
    /\ app.state.step = "storyboard"
    /\ app.started.video < MaxVideos
    /\ \E i \in DOMAIN app.plotPoints :
          /\ app.plotPoints[i].status # "generating"
          /\ app' = autoSave(handleGenerate(app, app.plotPoints[i].id, app.started.video + 1))
    /\ AppRest

VideoSettled ==
    /\ \E c \in app.pending :
          /\ c.kind = "video"
          /\ \/ app' = autoSave([app EXCEPT !.plotPoints = handleUpdatePlot(@, c.id, "completed", c.n),
                                            !.pending = @ \ {c}])
             \/ app' = autoSave([app EXCEPT !.plotPoints = handleUpdatePlot(@, c.id, "failed", 0),
                                            !.pending = @ \ {c}])
    /\ AppRest

PlayAll ==
    /\ rendered(app)
    /\ app.state.step = "preview"
    /\ app.currentPlayingIndex = -1
    /\ Len(validVideos(app.plotPoints)) > 0
    /\ app' = autoSave([app EXCEPT !.currentPlayingIndex = 0])
    /\ AppRest

VideoEnded ==
    /\ rendered(app)
    /\ app.state.step = "preview"
    /\ app.currentPlayingIndex # -1
    /\ app' = autoSave(handleVideoEnded(app))
    /\ AppRest

\* a clip of the timeline is clicked
SelectClip ==
    /\ rendered(app)
    /\ app.state.step = "preview"
    /\ \E idx \in 0..(Len(validVideos(app.plotPoints)) - 1) :
          /\ idx # app.currentPlayingIndex
          /\ app' = autoSave([app EXCEPT !.currentPlayingIndex = idx])
    /\ AppRest

\* StorySidebar: a project of the list is selected
LoadProject ==
    /\ rendered(app)
    /\ \E id \in DOMAIN app.projects : app' = autoSave(loadProject(app, id, app.projects[id]))
    /\ AppRest

CreateProject ==
    /\ rendered(app)
    /\ app.made < MaxProjects
    /\ app' = autoSave(createNewProject(app))
    /\ AppRest

DeleteProject ==
    /\ rendered(app)
    /\ \E id \in DOMAIN app.projects, next \in DOMAIN app.projects :
          /\ DOMAIN app.projects = {id} => app.made < MaxProjects
          /\ next = id <=> DOMAIN app.projects = {id}
          /\ app' = autoSave(deleteProject(app, id, without(app.projects, id), next))
    /\ AppRest

AppInit ==
    /\ AppIdle
    /\ CallIdle
    /\ ExtractIdle
    /\ ClassifyIdle

\* one project: the story, its analysis and the asset cards
AssetsNext ==
    \/ SetStory
    \/ Analyze
    \/ AnalyzeSettled
    \/ UpdateAsset
    \/ GenerateAsset
    \/ ImageSettled

SpecAssets == AppInit /\ [][AssetsNext]_vars

\* the story, the projects, the storyboard and the player
AppNext ==
    \/ SetStory
    \/ Analyze
    \/ AnalyzeSettled
    \/ Polish
    \/ PolishSettled
    \/ GoToStep
    \/ GenerateVideo
    \/ VideoSettled
    \/ PlayAll
    \/ VideoEnded
    \/ SelectClip
    \/ LoadProject
    \/ CreateProject
    \/ DeleteProject

SpecApp == AppInit /\ [][AppNext]_vars

(***************************************************************************)
(* The model configuration: App's savedModels and activeModelId, the two    *)
(* localStorage keys, and the settings dialog (models, selectedId,          *)
(* draftModel).  Every operation ends with the effects React runs after it. *)
(***************************************************************************)
MaxModels == 3   \* models created in one run
ProviderChoices == {"google", "openai"}

\* models.find(m => m.id === id), NoModel for undefined
find(models, id) ==
    IF \E i \in DOMAIN models : models[i].id = id
    THEN models[CHOOSE i \in DOMAIN models : models[i].id = id]
    ELSE NoModel

\* models.filter(m => m.id !== id)
filterOut(models, id) == SelectSeq(models, LAMBDA m : m.id # id)

\* savedModels.find(m => m.id === activeModelId) || savedModels[0]
currentModelConfig(s) ==
    IF find(s.savedModels, s.activeModelId) # NoModel THEN find(s.savedModels, s.activeModelId)
    ELSE IF Len(s.savedModels) > 0 THEN s.savedModels[1]
    ELSE NoModel

\* the dialog's effect on [selectedId, models]: the draft follows the
\* selection when the selection names a model
syncDraft(s) ==
    IF find(s.models, s.selectedId) # NoModel
    THEN [s EXCEPT !.draftModel = find(s.models, s.selectedId)]
    ELSE s

\* the dialog's effect on [isOpen, savedModels, activeModelId]
initialSelect(s) ==
    IF find(s.savedModels, s.activeModelId) # NoModel THEN s.activeModelId
    ELSE IF Len(s.savedModels) > 0 THEN s.savedModels[1].id
    ELSE 0

initialize(s) ==
    IF ~s.isSettingsOpen THEN s
    ELSE [s EXCEPT !.models = s.savedModels, !.selectedId = initialSelect(s),
                   !.draftModel = IF find(s.savedModels, initialSelect(s)) # NoModel
                                  THEN find(s.savedModels, initialSelect(s)) ELSE @]

\* App's load effect, and the dialog mounted with what it loaded
loadModels(s) ==
    IF s.stored.present
    THEN [s EXCEPT !.savedModels = s.stored.models,
                   !.activeModelId = IF s.stored.activeId # 0 THEN s.stored.activeId
                                     ELSE IF Len(s.stored.models) > 0
                                     THEN s.stored.models[1].id ELSE 0]
    ELSE [s EXCEPT !.savedModels = <<DefaultModel(s.made + 1)>>,
                   !.activeModelId = s.made + 1, !.made = @ + 1]

mounted(s) ==
    [s EXCEPT !.isSettingsOpen = FALSE, !.models = s.savedModels,
              !.selectedId = s.activeModelId, !.draftModel = NoModel]

handleSaveSettings(s, models, newActiveId) ==
    [s EXCEPT !.savedModels = models, !.activeModelId = newActiveId,
              !.stored = [models |-> models, activeId |-> newActiveId, present |-> TRUE]]

handleAddNew(s) ==
    [s EXCEPT !.models = Append(@, DefaultModel(s.made + 1)), !.selectedId = s.made + 1,
              !.made = @ + 1]

\* handleDelete that leaves the selection as it is
handleDeleteKeepsSelection(s, newModels) ==
    IF Len(newModels) = 0
    THEN [s EXCEPT !.models = <<DefaultModel(s.made + 1)>>, !.made = @ + 1]
    ELSE [s EXCEPT !.models = newModels]

\* handleDelete, confirmed by the user; newModels is the list without the
\* draft model
handleDelete(s, newModels) ==
    IF Len(newModels) = 0
    THEN [s EXCEPT !.models = <<DefaultModel(s.made + 1)>>, !.selectedId = s.made + 1,
                   !.made = @ + 1]
    ELSE [s EXCEPT !.models = newModels, !.selectedId = newModels[1].id]

\* updateDraft({provider: p}), from handleProviderChange
updateDraft(s, p) ==
    [s EXCEPT !.draftModel = SavedModel(@.id, p),
              !.models = [i \in DOMAIN @ |->
                            IF @[i].id = s.draftModel.id THEN SavedModel(@[i].id, p) ELSE @[i]]]

Settings(s) == app' = [app EXCEPT !.settings = s] /\ AppRest

OpenSettings ==
    /\ ~app.settings.isSettingsOpen
    /\ Settings(syncDraft(initialize([app.settings EXCEPT !.isSettingsOpen = TRUE])))

CloseSettings ==
    /\ app.settings.isSettingsOpen
    /\ Settings([app.settings EXCEPT !.isSettingsOpen = FALSE])

SelectModel ==
    /\ app.settings.isSettingsOpen
    /\ \E i \in DOMAIN app.settings.models :
          Settings(syncDraft([app.settings EXCEPT !.selectedId = app.settings.models[i].id]))

AddNew ==
    /\ app.settings.isSettingsOpen
    /\ app.settings.made < MaxModels
    /\ Settings(syncDraft(handleAddNew(app.settings)))

Delete ==
    /\ app.settings.isSettingsOpen
    /\ app.settings.draftModel # NoModel
    /\ \/ Len(filterOut(app.settings.models, app.settings.draftModel.id)) > 0
       \/ app.settings.made < MaxModels
    /\ Settings(syncDraft(handleDelete(app.settings,
                    filterOut(app.settings.models, app.settings.draftModel.id))))

ProviderChange ==
    /\ app.settings.isSettingsOpen
    /\ app.settings.draftModel # NoModel
    /\ \E p \in ProviderChoices : Settings(syncDraft(updateDraft(app.settings, p)))

SetAsActive ==
    /\ app.settings.isSettingsOpen
    /\ app.settings.draftModel # NoModel
    /\ app.settings.activeModelId # app.settings.draftModel.id
    /\ Settings(syncDraft(initialize(
           handleSaveSettings(app.settings, app.settings.models, app.settings.selectedId))))

SaveAll ==
    /\ app.settings.isSettingsOpen
    /\ Settings([handleSaveSettings(app.settings, app.settings.models, app.settings.selectedId)
                    EXCEPT !.isSettingsOpen = FALSE])

\* the page is loaded again
Reload ==
    /\ app.settings.stored.present \/ app.settings.made < MaxModels
    /\ Settings(syncDraft(mounted(loadModels(app.settings))))

SettingsNext ==
    \/ OpenSettings
    \/ CloseSettings
    \/ SelectModel
    \/ AddNew
    \/ Delete
    \/ ProviderChange
    \/ SetAsActive
    \/ SaveAll
    \/ Reload

SpecSettings == AppInit /\ [][SettingsNext]_vars

(***************************************************************************)
(* Drag and drop of the asset cards.  draggedAssetId <<>> is null;          *)
(* lastEvent records the last drag event and the card it was fired on.      *)
(***************************************************************************)
\* the assets of an analysis with three characters and two scenes, some of
\* them with an image, a negative prompt or an image call in flight
DropAssets ==
    << [StoryAsset(<<1, 1>>) EXCEPT !.imageUrl = 1],
       [StoryAsset(<<1, 3>>) EXCEPT !.type = "CHARACTER", !.isGenerating = TRUE],
       [StoryAsset(<<1, 4>>) EXCEPT !.type = "CHARACTER", !.negativePrompt = "no text"],
       StoryAsset(<<1, 2>>),
       [StoryAsset(<<1, 5>>) EXCEPT !.type = "SCENE", !.imageUrl = 2] >>

\* the lists the cards are dragged in: the last assets of that analysis
DropLists == {SubSeq(DropAssets, n, Len(DropAssets)) : n \in 1..Len(DropAssets)}

\* assets.findIndex(a => a.id === id), 1-based; 0 for -1
findIndex(assets, id) ==
    IF \E i \in DOMAIN assets : assets[i].id = id
    THEN CHOOSE i \in DOMAIN assets : assets[i].id = id
    ELSE 0

\* newAssets.splice(sourceIndex, 1); newAssets.splice(targetIndex, 0, moved)
spliced(assets, sourceIndex, targetIndex) ==
    [i \in DOMAIN assets |->
        IF i = targetIndex THEN assets[sourceIndex]
        ELSE IF sourceIndex < targetIndex /\ i >= sourceIndex /\ i < targetIndex THEN assets[i + 1]
        ELSE IF sourceIndex > targetIndex /\ i > targetIndex /\ i <= sourceIndex THEN assets[i - 1]
        ELSE assets[i]]

\* handleDrop without its test of the two types
handleDropAnyType(a, targetId, sourceIndex, targetIndex) ==
    IF a.draggedAssetId = <<>> \/ a.draggedAssetId = targetId THEN a
    ELSE IF sourceIndex = 0 \/ targetIndex = 0 THEN a
    ELSE [a EXCEPT !.assets = spliced(@, sourceIndex, targetIndex), !.draggedAssetId = <<>>]

handleDrop(a, targetId, sourceIndex, targetIndex) ==
    IF a.draggedAssetId = <<>> \/ a.draggedAssetId = targetId THEN a
    ELSE IF sourceIndex = 0 \/ targetIndex = 0 THEN a
    ELSE IF a.assets[sourceIndex].type # a.assets[targetIndex].type THEN a
    ELSE [a EXCEPT !.assets = spliced(@, sourceIndex, targetIndex), !.draggedAssetId = <<>>]

DragStart ==
    /\ app.state.step = "assets"
    /\ \E i \in DOMAIN app.assets :
          app' = [app EXCEPT !.draggedAssetId = app.assets[i].id,
                             !.lastEvent = <<"dragstart", app.assets[i].id>>]
    /\ AppRest

DragEnd ==
    /\ app.state.step = "assets"
    /\ app.lastEvent[1] \in {"dragstart", "drop"}
    /\ app' = [app EXCEPT !.draggedAssetId = <<>>, !.lastEvent = <<"dragend">>]
    /\ AppRest

Drop ==
    /\ app.state.step = "assets"
    /\ \E i \in DOMAIN app.assets :
          app' = autoSave([handleDrop(app, app.assets[i].id,
                                      findIndex(app.assets, app.draggedAssetId), i)
                             EXCEPT !.lastEvent = <<"drop", app.assets[i].id>>])
    /\ AppRest

\* the assets step of a project that was analyzed; the card being dragged,
\* if any, may have left the list since: the list is replaced when an
\* analysis settles
DropInit ==
    /\ \E assets \in DropLists, id \in {<<>>} \cup {DropAssets[i].id : i \in DOMAIN DropAssets} :
          app = autoSave([NoApp EXCEPT !.assets = assets, !.draggedAssetId = id,
                                       !.story = "Once upon a time", !.projectTitle = 1,
                                       !.state = GenerationState("assets", FALSE)])
    /\ CallIdle
    /\ ExtractIdle
    /\ ClassifyIdle

DropNext == DragStart \/ DragEnd \/ Drop

SpecDrop == DropInit /\ [][DropNext]_vars

(***************************************************************************)
(* Properties of the engine calls, read off the log                        *)
(***************************************************************************)
attempts(c)    == count(c, "attempt")
reselections(c) == count(c, "openSelectKey") + count(c, "preselect")

\* the attempt (1 or 2) that entry i of the log belongs to
attemptOf(c, i) == Cardinality({j \in 1..i : c.log[j].ev = "attempt"})

Requests == {"strict", "fallback", "generateContent", "generateImages",
             "generateVideos", "getVideosOperation", "fetch", "blob"}

\* request i of the log was answered with an auth-class error
authRaised(c, i) ==
    /\ c.log[i].ev \in Requests
    /\ c.log[i].reply.kind = "throw"
    /\ isAuthError(c.log[i].reply.v)

\* the fallback requests of attempt n
fallbacks(c, n) ==
    Cardinality({j \in 1..Len(c.log) : c.log[j].ev = "fallback" /\ attemptOf(c, j) = n})

\* C1 as the spec states it: a call whose first attempt raised an auth-class
\* error and which resolved has invoked the reselection capability exactly
\* once and made exactly two attempts
C1_SingleRetryOriginal ==
    (call.pc = "resolved" /\ \E i \in 1..Len(call.log) : authRaised(call, i))
        => reselections(call) = 1 /\ attempts(call) = 2

\* C1, amended: a call (analysis, polish, image or video) whose first attempt
\* raised an auth-class error and which resolved has invoked the reselection
\* capability exactly once in answer to that error and has attempted the
\* protocol exactly twice; only video generation may have invoked the
\* capability before that, when an attempt found no key
C1_SingleRetry ==
    (call.pc = "resolved" /\ \E i \in 1..Len(call.log) : authRaised(call, i))
        => /\ count(call, "openSelectKey") = 1
           /\ attempts(call) = 2
           /\ \A i \in 1..Len(call.log) : authRaised(call, i) => attemptOf(call, i) = 1
           /\ count(call, "preselect") > 0 => call.op = "video"

\* a resolved call whose first attempt raised an auth-class error
C1_Witness ==
    /\ call.pc = "resolved"
    /\ call.op = "analyze"
    /\ \E i \in 1..Len(call.log) : authRaised(call, i)

\* C2 as the spec states it: in every call the reselection capability is
\* invoked at most once and the protocol attempted at most twice
C2_RetryBoundOriginal == reselections(call) <= 1 /\ attempts(call) <= 2

\* C2, amended: in every call, whatever the provider answers and whatever the
\* ambient key is, the protocol is attempted at most twice and the reselection
\* capability is invoked at most once in answer to an auth-class error;
\* analysis, polish and image generation invoke it nowhere else, video
\* generation invokes it also at the start of an attempt that finds no key, at
\* most once per attempt
C2_RetryBound ==
    /\ attempts(call) <= 2
    /\ count(call, "openSelectKey") <= 1
    /\ call.op # "video" => count(call, "preselect") = 0
    /\ count(call, "preselect") <= attempts(call)

\* a video call at its second attempt, after both kinds of key prompt
C2_Witness ==
    /\ call.op = "video"
    /\ attempts(call) = 2
    /\ count(call, "openSelectKey") = 1
    /\ count(call, "preselect") = 1

\* what the strict request i of the log came to: a value or an error
strictOutcome(c, i) == textOutcome([c EXCEPT !.pc = "strict"], c.log[i].reply)

degrade(c, i, out) ==
    /\ (out.kind = "throw" /\ ~isAuthError(out.v))
          => /\ i < Len(c.log)
             /\ c.log[i + 1].ev = "fallback"
             /\ fallbacks(c, attemptOf(c, i)) = 1
    /\ (out.kind = "throw" /\ isAuthError(out.v))
          => fallbacks(c, attemptOf(c, i)) = 0

\* C3: in analysis and polish a strict request that fails with an error that
\* is not auth-class is followed by exactly one fallback request in its
\* attempt, and one that fails with an auth-class error by none
C3_StrictToFallback ==
    \A i \in 1..Len(call.log) :
        (call.log[i].ev = "strict" /\ call.log[i].reply.kind # "notrun")
            => degrade(call, i, strictOutcome(call, i))

\* a first attempt whose strict request failed auth-class, and a second one
\* whose strict request failed otherwise and was followed by the fallback
C3_Witness ==
    /\ Len(call.log) = 6
    /\ call.log[2].ev = "strict" /\ authRaised(call, 2)
    /\ call.log[3].ev = "openSelectKey"
    /\ call.log[5].ev = "strict" /\ call.log[5].reply.kind = "return"
    /\ call.log[6].ev = "fallback"

\* the error a call rejects with when its catch clause gives up on error e
surfaced(c, e) ==
    IF c.op = "image" THEN Error("Image Generation Failed: " \o e.message) ELSE e

\* C4 as the spec states it: without the capability, a call whose first
\* attempt raised an auth-class error has rejected with that error, has made
\* one attempt and has prompted for nothing
C4_NoCapabilityOriginal ==
    \A i \in 1..Len(call.log) :
        (~aistudio /\ authRaised(call, i))
            => /\ call.pc = "rejected"
               /\ call.settled.v = call.log[i].reply.v
               /\ attempts(call) = 1
               /\ reselections(call) = 0

\* C4, amended: without the capability, a call whose first attempt raised an
\* auth-class error has rejected at once, with that very error in analysis,
\* polish and video generation and with a new error whose message is "Image
\* Generation Failed: " followed by that error's message in image generation;
\* it has made one attempt and has prompted for nothing
C4_NoCapability ==
    \A i \in 1..Len(call.log) :
        (~aistudio /\ authRaised(call, i))
            => /\ call.pc = "rejected"
               /\ i = Len(call.log)
               /\ call.settled.v = surfaced(call, call.log[i].reply.v)
               /\ attempts(call) = 1
               /\ reselections(call) = 0

\* an image call rejected on an auth-class error without the capability
C4_Witness ==
    /\ ~aistudio
    /\ call.op = "image"
    /\ call.pc = "rejected"
    /\ authRaised(call, Len(call.log))

C7_SubmissionOnly ==
    \A i \in 1..Len(call.log) :
        (authRaised(call, i) /\ call.log[i].ev \in {"getVideosOperation", "fetch", "blob"})
            => /\ call.pc = "rejected"
               /\ i = Len(call.log)
               /\ count(call, "generateVideos") = 1

\* the fields the response schemas require
RequiredFields(op) ==
    IF op = "polish" THEN {"critique", "rewritten_story", "changes_made"}
    ELSE {"title", "characters", "scenes", "props", "animals_plants", "others", "plot_points"}

\* C9: analysis and polish resolve only with an object that holds every
\* required field of its shape
C9_RequiredFields ==
    (call.pc = "resolved" /\ call.op \in {"analyze", "polish"})
        => /\ call.settled.v.t = "obj"
           /\ RequiredFields(call.op) \subseteq DOMAIN call.settled.v.v

(***************************************************************************)
(* Properties of the classifier                                            *)
(***************************************************************************)
\* msg contains phrase, letter case ignored
mentions(msg, phrase) ==
    \E i \in 1..Len(msg) : \E j \in i..Len(msg) : toLowerCase(SubSeq(msg, i, j)) = phrase

\* C6 as the spec states it: an error is auth-class if and only if its
\* message contains "not found" or "404", letter case ignored, or its status
\* or its code is the number 404
C6_ClassificationOriginal ==
    authClass # "notrun" =>
        (authClass = "auth" <=>
            \/ mentions(err.message, "not found")
            \/ mentions(err.message, "404")
            \/ (err.status.t = "num" /\ err.status.v = "404")
            \/ (err.code.t = "num" /\ err.code.v = "404"))

\* C6, amended: an error is auth-class if and only if its message contains,
\* letter case ignored, "requested entity was not found" or "404", or its
\* status is the string "NOT_FOUND", or its code is the number 404; an error
\* with message "rate limit exceeded" and no such field is not auth-class
C6_Classification ==
    authClass # "notrun" =>
        /\ authClass = "auth" <=>
              \/ mentions(err.message, "requested entity was not found")
              \/ mentions(err.message, "404")
              \/ (err.status.t = "str" /\ err.status.v = "NOT_FOUND")
              \/ (err.code.t = "num" /\ err.code.v = "404")
        /\ (/\ err.message = "rate limit exceeded"
            /\ ~(err.status.t = "str" /\ err.status.v = "NOT_FOUND")
            /\ ~(err.code.t = "num" /\ err.code.v = "404")) => authClass = "other"

\* an error classified auth-class by its upper-case message alone
C6_Witness ==
    /\ authClass = "auth"
    /\ err.message = "REQUESTED ENTITY WAS NOT FOUND"
    /\ err.status = Undefined
    /\ err.code = Undefined

(***************************************************************************)
(* Properties of the extractor                                             *)
(***************************************************************************)
\* the document of the input as a value
docValue(in) == JSONparse(docText(in))

plain(in) ==
    /\ ~includes(docText(in), Fence)
    /\ ~includes(in.pre, Fence)
    /\ in.fence = "" => /\ ~includes(in.pre, "{")
                        /\ ~includes(in.pre, "[")
                        /\ ~includes(in.post, "}")
                        /\ ~includes(in.post, Fence)
    /\ in.commas => replaceTrailingCommas(docText(in), 0, "") = docText(in)

C10_ExtractionFailure ==
    (input.kind = "bare" /\ extracted # NotRun)
        => extracted = Throw(ParseFailure)

workingText(text) == unfence(trim(text), markdownMatch(trim(text)))

\* the position of the first opening brace or bracket of w, or -1
firstOpener(w) == leastOf({i \in 0..(Len(w) - 1) : charAt(w, i) \in {"{", "["}})

\* the position of the last closer that matches the opener at position o,
\* or -1
lastCloser(w, o) ==
    greatestOf({i \in 0..(Len(w) - 1) : charAt(w, i) = (IF charAt(w, o) = "{" THEN "}" ELSE "]")})

\* the span of w from position o to position c, both included
span(w, o, c) == SubSeq(w, o + 1, c + 1)

\* C31 as the spec states it: a working text with an opener is cut down to
\* the span from its first opener to the last occurrence of the matching
\* closer; only a text with no opener is left as it is
truncatedAsStated(w, cut, o) ==
    IF o = -1 THEN cut = w ELSE cut = span(w, o, lastCloser(w, o))

C31_TruncationOriginal ==
    extracted # NotRun
        => truncatedAsStated(workingText(raw), jsonBounds(workingText(raw)),
                             firstOpener(workingText(raw)))

truncated(w, cut, o, c) ==
    IF o = -1 \/ c <= o THEN cut = w ELSE cut = span(w, o, c)

truncatedFrom(w, cut, o) == truncated(w, cut, o, lastCloser(w, o))

\* C31, amended: the working text is cut down to the span from its first
\* opener (a brace or a bracket, whichever comes first) to the last
\* occurrence of that opener's matching closer when that closer lies after
\* the opener; a text with no opener, or with no matching closer after its
\* first opener, is parsed as it is
C31_Truncation ==
    extracted # NotRun
        => truncatedFrom(workingText(raw), jsonBounds(workingText(raw)),
                         firstOpener(workingText(raw)))

\* a text whose first opener has no matching closer after it, extracted
\* without truncation, and so rejected
C31_Witness ==
    /\ input.kind = "cut"
    /\ raw = "done } see {a"
    /\ firstOpener(workingText(raw)) # -1
    /\ jsonBounds(workingText(raw)) = raw
    /\ extracted = Throw(ParseFailure)

requests(c) == Cardinality({i \in 1..Len(c.log) : c.log[i].ev \in Requests})

\* the error of a call that finds no key
MissingCredential(op) ==
    IF op = "video" THEN Error("Google API Key required for Veo video generation.")
    ELSE Error("Google API Key is missing")

\* the key a call works with is the configured one when there is one, else
\* the process-level one, and no request is made without a key
effectiveKey(c) ==
    /\ c.apiKey # "none" => c.apiKey = (IF c.cfgKey THEN "cfg" ELSE "env")
    /\ c.apiKey = "env" => envKey
    /\ requests(c) > 0 => c.apiKey # "none"

\* C20 as the spec states it: the effective key is config.apiKey, else the
\* process-level key; a call that finds neither has failed at once with
\* the missing-credential error, without a request
C20_MissingCredentialOriginal ==
    /\ effectiveKey(call)
    /\ (call.pc # "idle" /\ ~call.cfgKey /\ ~envKey)
          => /\ call.pc = "rejected"
             /\ call.settled.v = MissingCredential(call.op)
             /\ Len(call.log) = 1

\* C20, amended: the effective key is config.apiKey when non-empty, otherwise
\* the process-level key; when neither is present no network request is
\* attempted, and analysis, polish and image generation fail at once with
\* the missing-credential error, as does video generation when there is no
\* reselection capability; with the capability, video generation first
\* invokes it and fails, with the capability's own error if it rejects and
\* with the missing-credential error if there is still no key
C20_MissingCredential ==
    /\ effectiveKey(call)
    /\ (call.pc # "idle" /\ ~call.cfgKey /\ ~envKey)
          => /\ requests(call) = 0
             /\ IF call.op = "video" /\ aistudio
                THEN /\ Len(call.log) = 2
                     /\ call.log[2].ev = "preselect"
                     /\ CASE call.log[2].reply.kind = "notrun" -> call.pc = "preselect"
                          [] call.log[2].reply.kind = "throw" ->
                                call.settled = Throw(call.log[2].reply.v)
                          [] OTHER -> call.settled = Throw(MissingCredential("video"))
                ELSE /\ Len(call.log) = 1
                     /\ call.settled = Throw(MissingCredential(call.op))

\* a video call that prompted for a key, got none and was rejected
C20_Witness ==
    /\ call.op = "video"
    /\ ~envKey
    /\ call.pc = "rejected"
    /\ Len(call.log) = 2
    /\ call.log[2].reply.kind = "return"

NoUri == Error("Video generation failed or no URI returned.")

\* what request i of the log came to in the attempt's try block: a value or
\* the error that reached a catch clause
requestOutcome(c, i) ==
    CASE c.log[i].ev \in {"strict", "fallback"} ->
            textOutcome([c EXCEPT !.pc = c.log[i].ev], c.log[i].reply)
      [] c.log[i].ev = "generateContent" -> imageOutcome(c.log[i].reply)
      [] c.log[i].ev = "generateImages"  -> imagenOutcome(c.log[i].reply)
      [] c.log[i].ev \in {"generateVideos", "getVideosOperation"} ->
            IF c.log[i].reply.kind = "return" /\ c.log[i].reply.v.done
                                              /\ c.log[i].reply.v.uri = ""
            THEN Throw(NoUri) ELSE c.log[i].reply
      [] OTHER -> c.log[i].reply

firstOccurrence(c, i, out) ==
    (out.kind = "throw" /\ ~isAuthError(out.v))
        => IF c.log[i].ev = "strict"
           THEN /\ i < Len(c.log)
                /\ c.log[i + 1].ev = "fallback"
                /\ \A j \in (i + 2)..Len(c.log) :
                      c.log[j].ev \in Requests => attemptOf(c, j) > attemptOf(c, i)
           ELSE i = Len(c.log) /\ c.pc = "rejected"

\* C16: a failure that is not auth-class is surfaced at once: in image and
\* video generation, and on the fallback request of analysis and polish, it
\* rejects the call with no further request and no reselection; on the
\* strict request of analysis and polish the one fallback request is the
\* only request that follows it in its attempt
C16_FirstOccurrence ==
    \A i \in 1..Len(call.log) :
        (call.log[i].ev \in Requests /\ call.log[i].reply.kind # "notrun")
            => firstOccurrence(call, i, requestOutcome(call, i))

\* an image call with the capability present, rejected on a text refusal
C16_Witness ==
    /\ call.op = "image"
    /\ aistudio
    /\ call.pc = "rejected"
    /\ Len(call.log) = 2
    /\ call.log[2].reply.kind = "return"

\* entry i is a status observation: the job is not done / done
observed(c, i, done) ==
    /\ i >= 1
    /\ c.log[i].ev \in {"generateVideos", "getVideosOperation"}
    /\ c.log[i].reply.kind = "return"
    /\ c.log[i].reply.v.done = done

\* C17: in every video attempt one job is submitted, at the start; a status
\* fetch follows one sleep that follows a not-done observation; the download
\* follows a done observation that holds a URI; nothing is fetched or slept
\* on after a done observation
C17_VideoStateMachine ==
    \A i \in 1..Len(call.log) :
        /\ call.log[i].ev = "generateVideos" => call.log[i - 1].ev \in {"attempt", "preselect"}
        /\ call.log[i].ev = "preselect" => call.log[i - 1].ev = "attempt"
        /\ call.log[i].ev = "sleep" => observed(call, i - 1, FALSE)
        /\ call.log[i].ev = "getVideosOperation"
              => call.log[i - 1].ev = "sleep" /\ observed(call, i - 2, FALSE)
        /\ call.log[i].ev = "fetch"
              => observed(call, i - 1, TRUE) /\ call.log[i - 1].reply.v.uri # ""
        /\ call.log[i].ev = "blob" => call.log[i - 1].ev = "fetch"
        /\ observed(call, i, TRUE)
              => \A j \in (i + 1)..Len(call.log) :
                    call.log[j].ev \in {"sleep", "getVideosOperation"}
                        => attemptOf(call, j) > attemptOf(call, i)

\* a video resolved after two not-done observations
C17_Witness ==
    /\ call.op = "video"
    /\ call.pc = "resolved"
    /\ notDone(call) = 2
    /\ attempts(call) = 1

\* a step of the poll loop: not done, then sleep, then the next status fetch
pollsOn ==
    /\ (call.pc \in {"generateVideos", "getVideosOperation"}
            /\ observed(call', Len(call.log), FALSE)) => (call'.pc = "sleep")
    /\ (call.pc = "sleep") => (call'.pc = "getVideosOperation")

\* C18: the poll loop has no give-up state: a not-done observation is
\* always followed by the sleep and the sleep by the next status fetch,
\* however many came before; and a video call whose awaited operations all
\* settle, the provider reporting done or raising in the end, settles
C18_PollsUntilDone ==
    /\ [][pollsOn]_vars
    /\ (call.op = "video") ~> (call.pc \in {"resolved", "rejected"})

\* a call at its status fetch after as many not-done observations as the
\* provider gives
C18_Witness ==
    /\ call.pc = "getVideosOperation"
    /\ notDone(call) = MaxPolls

\* C19: a job that is done and holds no URI rejects the call with the
\* generation-failed error; no download, no reselection and no second job
\* follow
C19_NoUri ==
    \A i \in 1..Len(call.log) :
        (observed(call, i, TRUE) /\ call.log[i].reply.v.uri = "")
            => /\ i = Len(call.log)
               /\ call.settled = Throw(NoUri)

\* a first video attempt, the capability present, done without a URI
C19_Witness ==
    /\ aistudio
    /\ attempts(call) = 1
    /\ observed(call, Len(call.log), TRUE)
    /\ call.log[Len(call.log)].reply.v.uri = ""
    /\ call.pc = "rejected"

(***************************************************************************)
(* The connection test and the OpenAI-compatible calls (SpecRequest)       *)
(***************************************************************************)
\* the probe request was answered, and with success: any value from the
\* Google client, a response that is ok from an endpoint
probeSucceeded(c) ==
    /\ Len(c.log) = 1
    /\ c.log[1].reply.kind = "return"
    /\ (c.provider = "google" \/ c.log[1].reply.v.ok)

\* C13: the connection test never rejects and issues at most one request;
\* once settled it has resolved to a boolean, which is true exactly when
\* its one probe request completed successfully, and false for a missing
\* credential, a network failure, a status that is not 2xx and an exception
\* of the provider
C13_NeverRejects ==
    call.op = "test" =>
        /\ call.pc # "rejected"
        /\ requests(call) <= 1
        /\ call.pc = "resolved" =>
              call.settled = Return(Lit(IF probeSucceeded(call) THEN "true" ELSE "false"))

\* a connection test against an endpoint that answered 401 has resolved
\* to false
C13_Witness ==
    /\ call.op = "test"
    /\ call.provider # "google"
    /\ call.pc = "resolved"
    /\ call.log[1].reply = Return(HttpResponse("401", FALSE))
    /\ call.settled = Return(Lit("false"))

\* the content the endpoint returned is missing, empty or not a document
contentFailure(content) ==
    \/ content = Undefined
    \/ content.v = ""
    \/ safeJSONParse(content.v).kind = "throw"

\* step i of the call has failed: a request or a read that raised, a status
\* that is not a success, a content that is empty or malformed
failure(e) ==
    /\ e.reply.kind # "notrun"
    /\ \/ e.reply.kind = "throw"
       \/ e.ev = "fetch" /\ ~e.reply.v.ok
       \/ e.ev = "json" /\ contentFailure(e.reply.v.v)

\* C14: on an OpenAI-compatible provider an analysis or a polish call has
\* issued exactly one HTTP request and has prompted for no credential; once
\* a step of it has failed it never resolves and makes no further request:
\* it has rejected, or is reading the body of the failed response in order
\* to reject
C14_SingleRequest ==
    call.op \in {"analyze", "polish"} =>
        /\ count(call, "fetch") = 1
        /\ requests(call) = 1
        /\ reselections(call) = 0
        /\ (\E i \in 1..Len(call.log) : failure(call.log[i]))
              => call.pc \in {"rejected", "text"}
        /\ call.pc = "text" => call.op = "analyze"

\* a polish call, the reselection capability present, whose request was
\* answered 404 and which has rejected
C14_Witness ==
    /\ call.op = "polish"
    /\ aistudio
    /\ call.log[1].reply = Return(HttpResponse("404", FALSE))
    /\ call.pc = "rejected"

\* the request of the call was answered with a status that is not a
\* success, and the call has rejected without a failure in reading the body
statusRejected(c) ==
    /\ c.op \in {"analyze", "polish", "image"}
    /\ c.pc = "rejected"
    /\ Len(c.log) > 0
    /\ c.log[1].ev = "fetch"
    /\ c.log[1].reply.kind = "return"
    /\ ~c.log[1].reply.v.ok
    /\ c.log[Len(c.log)].reply.kind = "return"

\* C15: an analysis, polish or image call on an OpenAI-compatible provider
\* whose request was answered with a status that is not a success has
\* rejected with an error whose message carries that status and the body
\* text of the response
C15_RequestFailed ==
    statusRejected(call) =>
        /\ includes(call.settled.v.message, call.log[1].reply.v.status)
        /\ Len(call.log) = 2
        /\ call.log[2].ev = "text"
        /\ includes(call.settled.v.message, call.log[2].reply.v.v)

(***************************************************************************)
(* What a catch clause takes for an auth-class error (Spec)                *)
(***************************************************************************)
\* C30: the reselection capability is invoked as the answer to an error
\* only when the request before it was rejected by the provider; a request
\* that the provider answered, whatever the answer holds, is never followed
\* by a reselection
C30_ProviderErrorsOnly ==
    \A i \in 1..Len(call.log) :
        call.log[i].ev = "openSelectKey"
            => /\ i > 1
               /\ call.log[i - 1].reply.kind = "throw"

\* the texts of the parts of a response, joined by spaces
refusalText(parts) == join(partText(SelectSeq(parts, hasText)), " ")

\* what the call has come to when the multimodal request answered with
\* these parts, the ones that hold image data being found
imageVerdict(c, found, text) ==
    IF Len(found) > 0
    THEN /\ c.pc = "resolved"
         /\ c.settled.v.v = "data:" \o found[1].mimeType \o ";base64," \o found[1].data
    ELSE IF text # ""
    THEN /\ c.pc = "rejected"
         /\ includes(c.settled.v.message, "Model refused to generate image")
         /\ includes(c.settled.v.message, SubSeq(text, 1, IF Len(text) < 100 THEN Len(text) ELSE 100))
         /\ Len(text) > 100 => ~includes(c.settled.v.message, text)
    ELSE /\ c.pc = "rejected"
         /\ includes(c.settled.v.message, "No image generated by Gemini (Response empty)")

\* C22: on the multimodal image path of the primary provider a response
\* with an inline image part resolves the call to the data URI of that
\* part; a response with text and no image part rejects it with the refusal
\* error, which carries the first 100 characters of the text; a response
\* with neither rejects it with the empty-response error
C22_ImageResponse ==
    \A i \in 1..Len(call.log) :
        (call.op = "image" /\ call.log[i].ev = "generateContent"
         /\ call.log[i].reply.kind = "return" /\ call.log[i].reply.v # Undefined)
            => /\ i = Len(call.log)
               /\ imageVerdict(call, SelectSeq(call.log[i].reply.v.v, hasData),
                               refusalText(call.log[i].reply.v.v))

(***************************************************************************)
(* Image generation on a provider other than the primary one (SpecRequest) *)
(***************************************************************************)
\* the provider of the call has an image endpoint of its own
offersImages(c) == c.provider = "openai" \/ (c.provider = "custom" /\ c.dalle)

\* C21: an image call on a provider with an image endpoint sends its one
\* request to that endpoint and none to the primary provider; on a provider
\* without one it sends its requests to the primary provider, with the
\* process-level key, when that key exists, and rejects without any request
\* when it does not
C21_ImageFallback ==
    call.op = "image" =>
        /\ offersImages(call)
              => count(call, "fetch") = 1 /\ count(call, "generateContent") = 0
        /\ (~offersImages(call) /\ envKey)
              => /\ count(call, "fetch") = 0
                 /\ count(call, "generateContent") >= 1
                 /\ call.apiKey = "env"
        /\ (~offersImages(call) /\ ~envKey)
              => call.pc = "rejected" /\ call.log = <<>>

\* an image call on ollama, a key in the configuration as well, resolved by
\* the primary provider
C21_Witness ==
    /\ call.op = "image"
    /\ call.provider = "ollama"
    /\ call.cfgKey
    /\ envKey
    /\ call.pc = "resolved"
    /\ call.log[Len(call.log)].ev = "generateContent"

\* C23: a call that has sent a request to an OpenAI-compatible endpoint
\* (connection test, analysis, polish, image generation) has sent it with a
\* bearer Authorization header if and only if config.apiKey is not empty
C23_BearerHeader ==
    count(call, "fetch") > 0 => (call.auth <=> call.cfgKey)

(***************************************************************************)
(* The configuration and the engines between calls (Spec)                  *)
(***************************************************************************)
\* what the call record holds of the ModelConfig it was given
configOf(c) == <<c.op, c.cfgKey, c.imagen>>

\* C26: no step of an engine call changes the configuration the call was
\* given, and when the call has returned nothing of it is left: the next
\* call starts from the engine's initial state, whatever came before
C26_ReadOnlyConfig ==
    [][/\ (call.pc # "idle" /\ call'.pc # "idle") => configOf(call') = configOf(call)
       /\ call'.pc = "idle" => call' = NoCall]_vars

\* a call given no key that resolved on its second attempt with the
\* reselected process-level key
C26_Witness ==
    /\ call.pc = "resolved"
    /\ attempts(call) = 2
    /\ ~call.cfgKey
    /\ call.apiKey = "env"

(***************************************************************************)
(* The App component (SpecAssets, SpecApp)                                 *)
(***************************************************************************)
\* the calls of this kind that the step completes
completed(kind) == {c \in app.pending \ app'.pending : c.kind = kind}

\* asset i of the displayed list is left alone by the completion of call c,
\* or is the asset of c and is given its outcome
settledAsset(before, after, c) ==
    IF before.id = c.id
    THEN /\ after.id = before.id
         /\ ~after.isGenerating
         /\ after.imageUrl \in {c.n, before.imageUrl}
         /\ after.negativePrompt = before.negativePrompt
    ELSE after = before

C24_ActiveConfig ==
    \A c \in app.pending : c.config = "currentModelConfig"

\* C27: the completion of an analysis that was started in another project
\* than the displayed one changes neither the assets, plot points, title and
\* step of the displayed project nor what is stored for it
C27_OwnProject ==
    [][\A c \in completed("analyze") :
          c.from # app.currentProjectId
              => /\ app'.assets = app.assets
                 /\ app'.plotPoints = app.plotPoints
                 /\ app'.projectTitle = app.projectTitle
                 /\ app'.state.step = app.state.step
                 /\ app'.projects = app.projects]_vars

\* an analysis started from project p is in flight
analyzing(p) == \E c \in app.pending : c.kind = "analyze" /\ c.from = p

\* C28: isAnalyzing is true, in the displayed state and in every stored
\* project, only while an analysis started from that project is in flight
C28_AnalyzingInFlight ==
    /\ app.state.isAnalyzing => analyzing(app.currentProjectId)
    /\ \A p \in DOMAIN app.projects : app.projects[p].state.isAnalyzing => analyzing(p)

\* C29: whenever the preview step is shown with a currentPlayingIndex that
\* is not null, the index is smaller than the number of plot points that
\* have a videoUrl
C29_PlayingIndex ==
    (app.state.step = "preview" /\ app.currentPlayingIndex # -1)
        => app.currentPlayingIndex < Len(validVideos(app.plotPoints))

(***************************************************************************)
(* Properties of the strict request's content failures                     *)
(***************************************************************************)
\* the errors analysis and polish raise on a text that is empty or that the
\* extractor rejects
contentErrors(op) ==
    {ParseFailure, Error(NoTextMessage(op, "strict")), Error(NoTextMessage(op, "fallback"))}

\* the strict request i, answered with a response, came to out
handledAsFailure(c, i, out) ==
    out.kind = "throw"
        => /\ i < Len(c.log)
           /\ c.log[i + 1].ev = "fallback"
           /\ fallbacks(c, attemptOf(c, i)) = 1

\* the call rejected with a content error: its last request is a fallback
\* request that was answered with a response and came to that error
fromFallback(c, n) ==
    /\ n > 0
    /\ c.log[n].ev = "fallback"
    /\ c.log[n].reply.kind = "return"
    /\ requestOutcome(c, n) = c.settled

\* C32: in analysis and polish a strict request that is answered with a
\* response whose text is empty or rejected by the extractor is followed by
\* exactly one fallback request in its attempt, and the call rejects with
\* the empty-response or the parse failure error only when its last fallback
\* request was answered with a text that is itself empty or rejected
C32_ContentFailure ==
    /\ \A i \in 1..Len(call.log) :
          (call.log[i].ev = "strict" /\ call.log[i].reply.kind = "return")
              => handledAsFailure(call, i, strictOutcome(call, i))
    /\ (call.op \in {"analyze", "polish"} /\ call.pc = "rejected"
           /\ call.settled.v \in contentErrors(call.op))
          => fromFallback(call, Len(call.log))

\* an analysis whose strict request was answered with an empty text and whose
\* fallback request with prose: the call rejected with the parse failure
C32_Witness ==
    /\ call.op = "analyze"
    /\ call.pc = "rejected"
    /\ Len(call.log) = 3
    /\ call.log[2].ev = "strict" /\ call.log[2].reply = Return(Response(""))
    /\ call.log[3].ev = "fallback"
    /\ call.log[3].reply = Return(Response("I cannot help with that."))
    /\ call.settled = Throw(ParseFailure)

(***************************************************************************)
(* Termination of analysis and polish                                      *)
(***************************************************************************)
\* the strict requests of attempt n
stricts(c, n) ==
    Cardinality({j \in 1..Len(c.log) : c.log[j].ev = "strict" /\ attemptOf(c, j) = n})

\* at most two attempts, and one strict and at most one fallback request in
\* each: at most four generation requests
requestBound(c) ==
    /\ attempts(c) <= 2
    /\ \A n \in 1..attempts(c) : stricts(c, n) <= 1 /\ fallbacks(c, n) <= 1
    /\ requests(c) <= 4

\* C33: an analysis or polish call issues at most four generation requests,
\* one strict and at most one fallback request in each of at most two
\* attempts, and a call whose requests and key prompt all settle settles,
\* whatever the provider answers
C33_Terminates ==
    /\ [](call.op \in {"analyze", "polish"} => requestBound(call))
    /\ (call.op \in {"analyze", "polish"}) ~> (call.pc \in {"resolved", "rejected"})

\* a polish call settled after four requests: both attempts went on to
\* their fallback request
C33_Witness ==
    /\ call.op = "polish"
    /\ call.pc \in {"resolved", "rejected"}
    /\ attempts(call) = 2
    /\ requests(call) = 4
    /\ fallbacks(call, 1) = 1 /\ fallbacks(call, 2) = 1

(***************************************************************************)
(* Properties of the storyboard's video calls                              *)
(***************************************************************************)
\* the video generation calls in flight for plot point id
videoCalls(id) == {c \in app.pending : c.kind = "video" /\ c.id = id}

\* every plot point of the list that is generating has a call in flight
inFlight(plotPoints) ==
    \A i \in DOMAIN plotPoints :
        plotPoints[i].status = "generating" => videoCalls(plotPoints[i].id) # {}

\* C34: a plot point has status generating, in the displayed state and in
\* every stored project, only while a video generation call for it is in
\* flight, and at most one such call is in flight for a plot point
C34_GeneratingInFlight ==
    /\ inFlight(app.plotPoints)
    /\ \A p \in DOMAIN app.projects : inFlight(app.projects[p].plotPoints)
    /\ \A c \in app.pending : c.kind = "video" => Cardinality(videoCalls(c.id)) = 1

(***************************************************************************)
(* Properties of a failed analysis                                         *)
(***************************************************************************)
\* this step settles analysis c, and not by showing its assets
analysisFails(c) ==
    /\ c \in app.pending
    /\ c.kind = "analyze"
    /\ c \notin app'.pending
    /\ app'.assets # analysisAssets(c.n)

\* C35: an analysis that fails, because the engine rejects or because the
\* value it returned lacks a field, leaves the title (with its custom-title
\* flag), the assets and the plot points as they were, the step is the one
\* of the click and isAnalyzing is false again
C35_FailureRestores ==
    [][\A c \in app.pending :
          analysisFails(c)
              => /\ app'.projectTitle = app.projectTitle
                 /\ app'.assets = app.assets
                 /\ app'.plotPoints = app.plotPoints
                 /\ app'.state = GenerationState(c.state.step, FALSE)]_vars

(***************************************************************************)
(* Properties of the model configuration                                   *)
(***************************************************************************)
ids(models) == {models[i].id : i \in DOMAIN models}

\* C36: after the initial load and across add, delete, select, set-active,
\* save and edit operations in the settings dialog the saved model list is
\* never empty, the active model id names a model of it, the dialog's list is
\* never empty and its selected id names a model of it: the configuration
\* handed to the engines is always defined
C36_ConfigDefined ==
    /\ Len(app.settings.savedModels) > 0
    /\ app.settings.activeModelId \in ids(app.settings.savedModels)
    /\ Len(app.settings.models) > 0
    /\ app.settings.selectedId \in ids(app.settings.models)
    /\ currentModelConfig(app.settings) # NoModel
    /\ currentModelConfig(app.settings).id = app.settings.activeModelId

\* a saved list that no longer holds the first model, which was the active
\* one: the one model of the list, made after it, is the active one
C36_Witness ==
    /\ app.settings.stored.present
    /\ Len(app.settings.savedModels) = 1
    /\ app.settings.savedModels[1].id > 1
    /\ app.settings.activeModelId = app.settings.savedModels[1].id
    /\ app.settings.made = 2

(***************************************************************************)
(* Properties of the drop handler                                          *)
(***************************************************************************)
\* the two lists hold the same assets, field by field
permutation(before, after) ==
    /\ Len(after) = Len(before)
    /\ \A i \in DOMAIN before : \E j \in DOMAIN after : after[j] = before[i]

\* nothing may move: no card is dragged, it is dropped on itself, one of the
\* two is not in the list, or the two differ in type
noMove(assets, dragged, target) ==
    \/ dragged = <<>>
    \/ dragged = target
    \/ findIndex(assets, dragged) = 0
    \/ findIndex(assets, target) = 0
    \/ assets[findIndex(assets, dragged)].type # assets[findIndex(assets, target)].type

\* C37: a drop reorders only: the asset list after it is a permutation of
\* the list before it with every asset as it was, and the list is exactly as
\* it was when the dragged and the target asset differ in type, are the same
\* asset, or one of them is not in the list
C37_ReordersOnly ==
    [][app'.lastEvent[1] = "drop"
          => /\ permutation(app.assets, app'.assets)
             /\ noMove(app.assets, app.draggedAssetId, app'.lastEvent[2])
                   => app'.assets = app.assets]_vars

\* a character card dropped on another one: the dragged card has changed
\* places, the scenes are where they were
C37_Witness ==
    /\ app.lastEvent = <<"drop", <<1, 1>> >>
    /\ app.draggedAssetId = <<>>
    /\ Len(app.assets) = 5
    /\ app.assets[1].id = <<1, 4>>
    /\ app.assets[2] = DropAssets[1]
    /\ app.assets[4].id = <<1, 2>>

====
